---- MODULE Spec2Model ----
(***************************************************************************)
(* A model of git-subrepo (src/git-subrepo/src/deso/git/subrepo/           *)
(* git-subrepo.py): the importing repository with its history, index and   *)
(* working tree, the commits of the remote repositories it has fetched,    *)
(* and the import, delete and reimport commands acting on them.            *)
(*                                                                         *)
(* Strings (paths, prefixes, remote names, SHA-1 names, the lines of a     *)
(* commit message) are sequences of one-character strings, so that the     *)
(* path arithmetic, the formatting of the records and the regular          *)
(* expressions that read them back are computed as the program computes    *)
(* them.                                                                   *)
(***************************************************************************)
EXTENDS Integers, Sequences, FiniteSets, TLC

(***************************************************************************)
(* Characters and strings                                                  *)
(***************************************************************************)

\* The characters that occur in the model, in the order of their code points.
CharOrder ==
  << " ", "-", ".", "/", "0", "1", "2", "3", ":", "F", "L", "M", "X",
     "a", "b", "c", "d", "e", "f", "i", "l", "m", "n", "o", "p", "r",
     "s", "t", "u", "x" >>

Chars == { CharOrder[i] : i \in 1..Len(CharOrder) }

Ord == [ c \in Chars |-> CHOOSE i \in 1..Len(CharOrder) : CharOrder[i] = c ]

sep == "/"

curdir == "."

StartsWith(s, p) == Len(p) <= Len(s) /\ SubSeq(s, 1, Len(p)) = p

Drop(s, n) == SubSeq(s, n + 1, Len(s))

\* The first position from k on where a and b differ or one of them ends.
RECURSIVE FirstDiff(_, _, _)
FirstDiff(a, b, k) ==
  IF k > Len(a) \/ k > Len(b) \/ a[k] # b[k] THEN k
  ELSE FirstDiff(a, b, k + 1)

\* Python's < on str: lexicographic by code point.
StrLess(a, b) ==
  LET less(k) == k <= Len(b) /\ (k > Len(a) \/ Ord[a[k]] < Ord[b[k]])
  IN  less(FirstDiff(a, b, 1))

\* sorted(set of str)
RECURSIVE sorted(_)
sorted(S) ==
  IF S = {} THEN << >>
  ELSE LET rest(m) == << m >> \o sorted(S \ {m})
       IN  rest(CHOOSE x \in S : \A y \in S \ {x} : StrLess(x, y))

\* bisect.insort (insort_right) into a sorted list
insort(list, x) ==
  LET at(n) == SubSeq(list, 1, n) \o << x >> \o SubSeq(list, n + 1, Len(list))
  IN  at(Cardinality({ i \in 1..Len(list) : ~ StrLess(x, list[i]) }))

\* The index of the first occurrence of character c in s from i on, 0 if
\* there is none.
RECURSIVE IndexFrom(_, _, _)
IndexFrom(s, c, i) ==
  IF i > Len(s) THEN 0
  ELSE IF s[i] = c THEN i
  ELSE IndexFrom(s, c, i + 1)

\* str.find(c) + 1
IndexOf(s, c) == IndexFrom(s, c, 1)

\* str.split(sep) of a path
RECURSIVE SplitPath(_)
SplitPath(s) ==
  LET at(i) == IF i = 0 THEN << s >>
               ELSE << SubSeq(s, 1, i - 1) >> \o SplitPath(Drop(s, i))
  IN  at(IndexOf(s, sep))

RECURSIVE JoinComps(_)
JoinComps(comps) ==
  IF comps = << >> THEN << >>
  ELSE IF Len(comps) = 1 THEN comps[1]
  ELSE comps[1] \o << sep >> \o JoinComps(Tail(comps))

\* os.path.join(a, b)
join(a, b) ==
  IF b # << >> /\ b[1] = sep THEN b
  ELSE IF a = << >> \/ a[Len(a)] = sep THEN a \o b
  ELSE a \o << sep >> \o b

\* os.path.normpath of a relative path: empty and "." components are
\* dropped, ".." cancels the component before it, the empty result is ".".
RECURSIVE NormComps(_, _)
NormComps(comps, acc) ==
  IF comps = << >> THEN acc
  ELSE LET c == Head(comps)
       IN  IF c = << >> \/ c = << curdir >> THEN NormComps(Tail(comps), acc)
           ELSE IF c = << curdir, curdir >> /\ acc # << >>
                                          /\ acc[Len(acc)] # << curdir, curdir >>
                THEN NormComps(Tail(comps), SubSeq(acc, 1, Len(acc) - 1))
           ELSE NormComps(Tail(comps), Append(acc, c))

normpath(path) ==
  LET joined(comps) == IF comps = << >> THEN << curdir >> ELSE JoinComps(comps)
  IN  joined(NormComps(SplitPath(path), << >>))

\* os.path.commonprefix([a, b]): character-wise, not component-wise
commonprefix(a, b) == SubSeq(a, 1, FirstDiff(a, b, 1) - 1)

trail(path) == join(path, << >>)

ROOT_PREFIX == << curdir, sep >>

(***************************************************************************)
(* GitImporter.removeSubsumedFiles                                         *)
(***************************************************************************)

\* a loop that compares each path with the path before it in the sorted
\* list, kept or not
RECURSIVE subsumeLoopByPredecessor(_, _, _)
subsumeLoopByPredecessor(files, new_files, subsumer) ==
  IF files = << >> THEN new_files
  ELSE LET file_ == Head(files)
           is_file(length) ==
             /\ length < Len(file_)
             /\ file_[IF length = 0 THEN Len(file_) ELSE length] = sep
           is_same(length) == length = Len(file_)
           subsumed(prefix) ==
             /\ prefix = subsumer
             /\ (is_file(Len(prefix)) \/ is_same(Len(prefix)))
       IN  IF subsumed(commonprefix(file_, subsumer))
           THEN subsumeLoopByPredecessor(Tail(files), new_files, trail(file_))
           ELSE subsumeLoopByPredecessor(Tail(files), Append(new_files, file_),
                                         trail(file_))

\* The loop of removeSubsumedFiles over the sorted paths after the first.
RECURSIVE subsumeLoop(_, _, _)
subsumeLoop(files, new_files, subsumer) ==
  IF files = << >> THEN new_files
  ELSE LET file_ == Head(files)
           \* file_[length - 1], where index -1 is the last character
           is_file(length) ==
             /\ length < Len(file_)
             /\ file_[IF length = 0 THEN Len(file_) ELSE length] = sep
           is_same(length) == length = Len(file_)
           subsumed(prefix) ==
             /\ prefix = subsumer
             /\ (is_file(Len(prefix)) \/ is_same(Len(prefix)))
       IN  IF subsumed(commonprefix(file_, subsumer))
           THEN subsumeLoop(Tail(files), new_files, subsumer)
           ELSE subsumeLoop(Tail(files), Append(new_files, file_), trail(file_))

\* The argument is a set of paths, the result the list the program iterates.
removeSubsumedFiles(files) ==
  LET loop(list) ==
        IF Len(list) <= 1 THEN list
        ELSE subsumeLoop(Tail(list), << Head(list) >>, trail(Head(list)))
  IN  loop(sorted(files))

(***************************************************************************)
(* Commit messages: the records written by the tool                        *)
(***************************************************************************)

None == << >>

\* "import subrepo " and "delete subrepo " and " at " of IMPORT_MSG, DELETE_MSG
ImportLit == << "i", "m", "p", "o", "r", "t", " ", "s", "u", "b", "r", "e", "p", "o", " " >>

DeleteLit == << "d", "e", "l", "e", "t", "e", " ", "s", "u", "b", "r", "e", "p", "o", " " >>

AtLit == << " ", "a", "t", " " >>

\* The length of a SHA-1 name, the {40} of SHA1_R.
SHA1_LEN == 40

Subrepo(repo, prefix) == [ repo |-> repo, prefix |-> prefix ]

importMessage(subrepo, sha1) ==
  ImportLit \o subrepo.prefix \o << ":" >> \o subrepo.repo \o AtLit \o sha1

deleteMessage(subrepo) ==
  DeleteLit \o subrepo.prefix \o << ":" >> \o subrepo.repo

\* imports is a dict Subrepo -> sha1; the result is the sorted list of lines.
RECURSIVE importMessageForKeys(_, _, _)
importMessageForKeys(keys, imports, outer_prefix) ==
  IF keys = {} THEN << >>
  ELSE LET import_prefix(subrepo) ==
             trail(normpath(join(outer_prefix, subrepo.prefix)))
           message(subrepo) ==
             importMessage(Subrepo(subrepo.repo, import_prefix(subrepo)),
                           imports[subrepo])
           with(subrepo) ==
             insort(importMessageForKeys(keys \ {subrepo}, imports, outer_prefix),
                    message(subrepo))
       IN  with(CHOOSE k \in keys : TRUE)

\* the records with the prefixes as the remote repository recorded them
importMessageForImportsAsRecorded(imports, outer_prefix) ==
  importMessageForKeys(DOMAIN imports, imports, << >>)

importMessageForImports(imports, outer_prefix) ==
  importMessageForKeys(DOMAIN imports, imports, outer_prefix)

\* A message is the list of its lines; the empty line is << >>.
importMessageForCommit(subrepo, sha1, imports, space) ==
  LET message(subject, body) ==
        IF body = << >> THEN << subject >>
        ELSE << subject >> \o (IF space THEN << << >> >> ELSE << >>) \o body
  IN  message(importMessage(subrepo, sha1),
              importMessageForImports(imports, subrepo.prefix))

\* dependencies is a set of pairs << subrepo, sha1 >>.
RECURSIVE deleteMessageForDeletion(_)
deleteMessageForDeletion(dependencies) ==
  IF dependencies = {} THEN << >>
  ELSE LET with(d) == insort(deleteMessageForDeletion(dependencies \ {d}),
                             deleteMessage(d[1]))
       IN  with(CHOOSE d \in dependencies : TRUE)

deleteMessageForCommit(subrepo, dependencies, space) ==
  LET message(subject, body) ==
        IF body = << >> THEN << subject >>
        ELSE << subject >> \o (IF space THEN << << >> >> ELSE << >>) \o body
  IN  message(deleteMessage(subrepo), deleteMessageForDeletion(dependencies))

(***************************************************************************)
(* Commit messages: the regular expressions that read the records          *)
(***************************************************************************)

\* [a-z0-9]
Sha1Chars ==
  { "0", "1", "2", "3", "a", "b", "c", "d", "e", "f", "i", "l", "m", "n",
    "o", "p", "r", "s", "t", "u", "x" }

\* [a-z0-9]{40}
IsSha1(s) == Len(s) = SHA1_LEN /\ \A i \in 1..Len(s) : s[i] \in Sha1Chars

\* ([^ :]+), the "component" of _searchImportedSubrepos
IsComponent(s) == s # << >> /\ \A i \in 1..Len(s) : s[i] \notin { " ", ":" }

NoMatch == [ kind |-> "none", subrepo |-> Subrepo(None, None), sha1 |-> None ]

\* ^import subrepo ([^ :]+):([^ :]+) at ([a-z0-9]{40})$
scanImportLine(line) ==
  LET \* the groups, given where the first ":" and the first " " after it are
      groups(colon, space) ==
        [ kind |-> "import",
          subrepo |-> Subrepo(SubSeq(line, colon + 1, space - 1),
                              SubSeq(line, Len(ImportLit) + 1, colon - 1)),
          sha1 |-> Drop(line, space - 1 + Len(AtLit)) ]
      matched(colon, space, record) ==
        IF /\ colon > 0
           /\ space > 0
           /\ IsComponent(record.subrepo.prefix)
           /\ IsComponent(record.subrepo.repo)
           /\ StartsWith(Drop(line, space - 1), AtLit)
           /\ IsSha1(record.sha1)
        THEN record ELSE NoMatch
      fields(colon, space) == matched(colon, space, groups(colon, space))
      after(colon) == fields(colon, IndexFrom(line, " ", colon + 1))
  IN  IF ~ StartsWith(line, ImportLit) THEN NoMatch
      ELSE after(IndexFrom(line, ":", Len(ImportLit) + 1))

\* ^delete subrepo ([^ :]+):([^ :]+)$
scanDeleteLine(line) ==
  LET groups(colon) ==
        [ kind |-> "delete",
          subrepo |-> Subrepo(Drop(line, colon),
                              SubSeq(line, Len(DeleteLit) + 1, colon - 1)),
          sha1 |-> None ]
      matched(colon, record) ==
        IF /\ colon > 0
           /\ IsComponent(record.subrepo.prefix)
           /\ IsComponent(record.subrepo.repo)
        THEN record ELSE NoMatch
      fields(colon) == matched(colon, groups(colon))
  IN  IF ~ StartsWith(line, DeleteLit) THEN NoMatch
      ELSE fields(IndexFrom(line, ":", Len(DeleteLit) + 1))

\* regex.match(line) with the pattern "^(?:import...|delete...)$"
scanLine(line) ==
  LET either(imported) ==
        IF imported.kind # "none" THEN imported ELSE scanDeleteLine(line)
  IN  either(scanImportLine(line))

\* importsAndDeletions(message, regex): the records of the matching lines
importsAndDeletions(message) ==
  SelectSeq([ i \in 1..Len(message) |-> scanLine(message[i]) ],
            LAMBDA record : record.kind # "none")

(***************************************************************************)
(* GitImporter._searchImportedSubrepos                                     *)
(*                                                                         *)
(* A log is the list of the messages of the commits reachable from a       *)
(* commit, newest first (the order of git-rev-list on a linear history).   *)
(***************************************************************************)

\* rev-list --extended-regexp --grep=^(pattern)$: the commits with a record
\* line, each given by the records that importsAndDeletions reads from its
\* message
revListGrep(log) ==
  SelectSeq([ i \in 1..Len(log) |-> importsAndDeletions(log[i]) ],
            LAMBDA records : records # << >>)

Put(dict, key, value) ==
  [ k \in DOMAIN dict \cup {key} |-> IF k = key THEN value ELSE dict[k] ]

Only(dict, keys) == [ k \in keys |-> dict[k] ]

EmptyDict == [ k \in {} |-> None ]

RECURSIVE flatRecords(_, _)
flatRecords(records, imports) ==
  IF records = << >> THEN imports
  ELSE LET r == Head(records)
       IN  IF r.subrepo \notin DOMAIN imports
           THEN flatRecords(Tail(records), Put(imports, r.subrepo, r.sha1))
           ELSE flatRecords(Tail(records), imports)

RECURSIVE flatCommits(_, _)
flatCommits(commits, imports) ==
  IF commits = << >> THEN imports
  ELSE flatCommits(Tail(commits), flatRecords(Head(commits), imports))

\* a scan that walks the commits oldest first, so that the oldest record of
\* an identity wins
extractImportsFlatOldest(commits) ==
  LET oldest == [ i \in 1..Len(commits) |-> commits[Len(commits) + 1 - i] ]
      filtered(imports) ==
        Only(imports, { k \in DOMAIN imports : imports[k] # None })
  IN  filtered(flatCommits(oldest, EmptyDict))

\* extractImportsFlat: Subrepo -> sha1 of the first record met, deletions
\* filtered out at the end
extractImportsFlat(commits) ==
  LET filtered(imports) ==
        Only(imports, { k \in DOMAIN imports : imports[k] # None })
  IN  filtered(flatCommits(commits, EmptyDict))

\* a scan that drops the records after the first one
dependenciesOfNone(records) == << >>

\* The records after the first one that are imports, as pairs << k, v >>.
dependenciesOf(records) ==
  LET pairs(rest) == [ i \in 1..Len(rest) |-> << rest[i].subrepo, rest[i].sha1 >> ]
  IN  pairs(SelectSeq(Tail(records), LAMBDA r : r.sha1 # None))

RECURSIVE treeCommits(_, _)
treeCommits(commits, imports) ==
  IF commits = << >> THEN imports
  ELSE LET records == Head(commits)
           first   == Head(records)
       IN  IF first.subrepo \in DOMAIN imports
           THEN treeCommits(Tail(commits), imports)
           ELSE treeCommits(Tail(commits),
                            Put(imports, first.subrepo,
                                [ sha1 |-> first.sha1,
                                  dependencies |-> dependenciesOf(records) ]))

\* extractImports: Subrepo -> (sha1, dependencies) keyed by the first record
\* of each commit, deletions filtered out at the end
extractImports(commits) ==
  LET filtered(imports) ==
        Only(imports, { k \in DOMAIN imports : imports[k].sha1 # None })
  IN  filtered(treeCommits(commits, EmptyDict))

\* _searchImportedSubrepos(head_commit, flat=True)
searchImportedSubreposFlat(log) == extractImportsFlat(revListGrep(log))

\* _searchImportedSubrepos(head_commit)
searchImportedSubrepos(log) == extractImports(revListGrep(log))

(***************************************************************************)
(* The object store: the commits of the fetched remote repositories        *)
(***************************************************************************)

\* A SHA-1 name: a short tag filled up with zeros to SHA1_LEN characters.
Sha(tag) == tag \o [ i \in 1..(SHA1_LEN - Len(tag)) |-> "0" ]

L1 == << "L", "1" >>

L2 == << "L", "2" >>

M2 == << "M", "2" >>

M3 == << "M", "3" >>

F1 == << "F", "1" >>

\* a remote whose only commit has the empty tree (git commit --allow-empty)
E0 == << "e", "0" >>

\* a name that is no remote of the repository
X0 == << "X", "0" >>

master == << "m", "a", "s", "t", "e", "r" >>

\* the prefix "l/" next to the root prefix
LibPrefix == << "l", sep >>

C1a == Sha(<< "1", "a" >>)

C1b == Sha(<< "1", "b" >>)

Cf1 == Sha(<< "f", "1" >>)

C2a == Sha(<< "2", "a" >>)

C2b == Sha(<< "2", "b" >>)

Cm1 == Sha(<< "m", "1" >>)

Cm2 == Sha(<< "m", "2" >>)

Ce0 == Sha(<< "e", "0" >>)

C3a == Sha(<< "3", "a" >>)

C3b == Sha(<< "3", "b" >>)

C3c == Sha(<< "3", "c" >>)

\* the prefix "f/"
ForkPrefix == << "f", sep >>

\* The tree of a commit: path -> content, files only.
Tree1a == (<< "a" >> :> "a1") @@ (<< "d", sep, "x" >> :> "x1")

Tree1b == (<< "a" >> :> "a2") @@ (<< "e" >> :> "e1")

Treef1 == (<< "a" >> :> "a1") @@ (<< "d", sep, "x" >> :> "x1") @@ (<< "f" >> :> "f1")

\* A tree with every path moved below a directory.
Below(dir, tree) ==
  [ q \in { dir \o p : p \in DOMAIN tree } |-> tree[Drop(q, Len(dir))] ]

\* L1: 1a <- 1b, the body of 1b's message quoting the subject of 1a.  F1, a
\* fork of L1: 1a <- f1, f1 carrying the subject of 1b.
\* L2: 2a <- 2b, 2b being "import L1 . 1a" run in L2.
\* M2: m1 <- m2, m2 being "import L1 l 1a" run in M2.
\* M3: 3a <- 3b <- 3c, 3b being "import L1 l 1a" and 3c "import F1 f master"
\* run in M3.
Objects ==
     (C1a :> [ parent |-> None, tree |-> Tree1a,
               message |-> << << "c", "1" >> >> ])
  @@ (C1b :> [ parent |-> C1a, tree |-> Tree1b,
               message |-> << << "c", "2" >>, << >>, << "c", "1" >> >> ])
  @@ (Cf1 :> [ parent |-> C1a, tree |-> Treef1,
               message |-> << << "c", "2" >> >> ])
  @@ (C2a :> [ parent |-> None, tree |-> (<< "b" >> :> "b1"),
               message |-> << << "c", "3" >>, << >>, << "c", "1" >> >> ])
  @@ (C2b :> [ parent |-> C2a, tree |-> (<< "b" >> :> "b1") @@ Tree1a,
               message |-> << importMessage(Subrepo(L1, ROOT_PREFIX), C1a) >> ])
  @@ (Cm1 :> [ parent |-> None, tree |-> (<< "m" >> :> "m1"),
               message |-> << << "c", "1" >> >> ])
  @@ (Cm2 :> [ parent |-> Cm1,
               tree |-> (<< "m" >> :> "m1") @@ Below(LibPrefix, Tree1a),
               message |-> << importMessage(Subrepo(L1, LibPrefix), C1a) >> ])
  @@ (Ce0 :> [ parent |-> None, tree |-> [ p \in {} |-> "" ],
               message |-> << << "c", "0" >> >> ])
  @@ (C3a :> [ parent |-> None, tree |-> (<< "m" >> :> "m1"),
               message |-> << << "c", "1" >> >> ])
  @@ (C3b :> [ parent |-> C3a,
               tree |-> (<< "m" >> :> "m1") @@ Below(LibPrefix, Tree1a),
               message |-> << importMessage(Subrepo(L1, LibPrefix), C1a) >> ])
  @@ (C3c :> [ parent |-> C3b,
               tree |-> (<< "m" >> :> "m1") @@ Below(LibPrefix, Tree1a)
                          @@ Below(ForkPrefix, Treef1),
               message |-> << importMessage(Subrepo(F1, ForkPrefix), Cf1) >> ])

\* refs/remotes/<repo>/<branch>
RemoteRefs ==
  { [ repo |-> L1, branch |-> master, sha1 |-> C1b ],
    [ repo |-> F1, branch |-> master, sha1 |-> Cf1 ],
    [ repo |-> L2, branch |-> master, sha1 |-> C2b ],
    [ repo |-> M2, branch |-> master, sha1 |-> Cm2 ],
    [ repo |-> E0, branch |-> master, sha1 |-> Ce0 ],
    [ repo |-> M3, branch |-> master, sha1 |-> C3c ] }

\* The commits reachable from a commit, the commit included.
RECURSIVE Ancestors(_)
Ancestors(sha1) ==
  IF sha1 = None THEN {} ELSE {sha1} \cup Ancestors(Objects[sha1].parent)

\* The messages of the commits reachable from a commit, newest first.
RECURSIVE LogOf(_)
LogOf(sha1) ==
  IF sha1 = None THEN << >>
  ELSE << Objects[sha1].message >> \o LogOf(Objects[sha1].parent)

(***************************************************************************)
(* The importing repository and the git commands the tool runs in it       *)
(*                                                                         *)
(* A repository state st has the commits of the checked out branch, oldest *)
(* first, each with its message and its tree, the index and the working    *)
(* tree (both path -> content).                                            *)
(***************************************************************************)

EmptyTree == [ p \in {} |-> "" ]

Repo(commits_, index_, worktree_) ==
  [ commits |-> commits_, index |-> index_, worktree |-> worktree_ ]

\* The tree of HEAD; the empty tree while the branch has no commit.
HeadTree(st) ==
  IF st.commits = << >> THEN EmptyTree ELSE st.commits[Len(st.commits)].tree

\* The messages of the commits reachable from HEAD, newest first.
HeadLog(st) ==
  [ i \in 1..Len(st.commits) |-> st.commits[Len(st.commits) + 1 - i].message ]

\* The messages of the commits reachable from HEAD^, newest first.
ParentLog(st) == Tail(HeadLog(st))

\* _isValidCommit of a SHA-1 name: the object store has the commit
isValidCommit(sha1) == sha1 \in DOMAIN Objects

\* _hasHead
hasHead(st) == st.commits # << >>

\* a check of the index that never sees a staged change
hasCachedChangesNever(st) == FALSE

\* hasCachedChanges: git diff --cached --exit-code fails
hasCachedChanges(st) == st.index # HeadTree(st)

\* path is file_ or lies below the directory file_
IsAtOrBelow(path, file_) == path = file_ \/ StartsWith(path, file_ \o << sep >>)

\* os.path.lexists(join(root, file_))
lexists(st, file_) == \E p \in DOMAIN st.worktree : IsAtOrBelow(p, file_)

\* git ls-tree <sha1>^{tree}: the top-level blobs and trees
lsTree(sha1) == { Head(SplitPath(p)) : p \in DOMAIN Objects[sha1].tree }

\* _readCommitFiles
readCommitFiles(sha1, prefix) ==
  { normpath(join(prefix, x)) : x \in lsTree(sha1) }

\* _diffAwayFiles: one diff-index command per path that exists
diffAwayFiles(st, files) == SelectSeq(files, LAMBDA file_ : lexists(st, file_))

\* git diff-index -R <empty tree> -- file_: the tracked paths the patch deletes
diffIndexPaths(st, file_) == { p \in DOMAIN st.index : IsAtOrBelow(p, file_) }

\* the patch without --src-prefix/--dst-prefix: the files land at the root
diffTreePatchAtRoot(prefix, sha1) == Objects[sha1].tree

\* git diff-tree <empty tree> <sha1>^{tree} with the arguments of _diffArgs:
\* --src-prefix/--dst-prefix below a prefix, --no-prefix at the root
diffTreePatch(prefix, sha1) ==
  IF prefix # ROOT_PREFIX THEN Below(prefix, Objects[sha1].tree)
  ELSE Objects[sha1].tree

\* A path cannot be created where it, a file above it or a directory at it exists.
Collides(path, paths) ==
  \E q \in paths : IsAtOrBelow(path, q) \/ IsAtOrBelow(q, path)

\* git apply --index --exclude=<file> on a stream: the patch of
\* retrieveDummyPatch for the excluded file when `dummy`, the revert patches
\* of the listed paths and a patch that creates the files of `creates`.  git
\* apply is atomic; it fails when a path is deleted twice in the stream, when
\* a file to create exists, and when the stream holds no patch at all.
gitApply(st, reverts, creates, dummy) ==
  LET deleted == UNION { diffIndexPaths(st, reverts[i]) : i \in 1..Len(reverts) }
      twice   == \E i, j \in 1..Len(reverts) :
                    i # j /\ diffIndexPaths(st, reverts[i])
                               \cap diffIndexPaths(st, reverts[j]) # {}
      exists(remaining) == \E p \in DOMAIN creates : Collides(p, remaining)
      result(remaining) ==
        [ p \in remaining \cup DOMAIN creates |->
            IF p \in DOMAIN creates THEN creates[p] ELSE st.index[p] ]
      applied(tree) == [ ok |-> TRUE, st |-> Repo(st.commits, tree, tree) ]
      noPatch == ~ dummy /\ deleted = {} /\ DOMAIN creates = {}
      apply(remaining) ==
        IF noPatch \/ twice \/ exists(remaining) THEN [ ok |-> FALSE, st |-> st ]
        ELSE applied(result(remaining))
  IN  apply(DOMAIN st.index \ deleted)

\* the pipeline piped into git apply as it is
springWithApply(st, reverts, creates) == gitApply(st, reverts, creates, FALSE)

\* springWithSafeApply: the dummy patch is echoed into the stream first
safeApply(st, reverts, creates) == gitApply(st, reverts, creates, TRUE)

\* git commit --message=...: a new commit of the index on top of HEAD
gitCommit(st, message) ==
  Repo(Append(st.commits, [ message |-> message, tree |-> st.index ]),
       st.index, st.worktree)

\* The tree of HEAD^; the empty tree when HEAD is a root commit.
ParentTree(st) ==
  IF Len(st.commits) < 2 THEN EmptyTree ELSE st.commits[Len(st.commits) - 1].tree

\* git commit --amend refuses to make the commit empty
canAmend(st) == st.index # ParentTree(st)

\* an amend that puts the new commit on top of HEAD instead of replacing it
gitCommitAmendOnTop(st, message) ==
  Repo(Append(st.commits, [ message |-> message, tree |-> st.index ]),
       st.index, st.worktree)

\* git commit --amend --message=...: HEAD replaced by a commit of the index
gitCommitAmend(st, message) ==
  Repo(Append(SubSeq(st.commits, 1, Len(st.commits) - 1),
              [ message |-> message, tree |-> st.index ]),
       st.index, st.worktree)

\* git rev-parse --verify refs/remotes/<repo>/<commit>^{commit}, then
\* <commit>^{commit}.  The checked out branch is called master, so that
\* name resolves locally once the branch has a commit.
resolveRemoteCommit(st, repo, commit) ==
  LET resolve(refs) ==
        IF refs # {}
        THEN [ err |-> "none", sha1 |-> (CHOOSE ref \in refs : TRUE).sha1 ]
        ELSE IF isValidCommit(commit) THEN [ err |-> "none", sha1 |-> commit ]
        ELSE IF commit = master /\ hasHead(st)
             THEN [ err |-> "RuntimeError", sha1 |-> None ]
        ELSE [ err |-> "UnknownCommit", sha1 |-> None ]
  IN  resolve({ ref \in RemoteRefs : ref.repo = repo /\ ref.branch = commit })

\* git rev-list --remotes=<repo>: the commits reachable from its refs
remoteCommits(repo) ==
  UNION { Ancestors(ref.sha1) : ref \in { r \in RemoteRefs : r.repo = repo } }

\* belongsToRepository: rev-list --count --remotes=<repo> with and without
\* ^<sha1>; ^<sha1> excludes every commit reachable from sha1
belongsToRepository(repo, sha1) ==
  LET including(commits) == Cardinality(commits)
      excluding(commits) == Cardinality(commits \ Ancestors(sha1))
      counted(commits)   == including(commits) - excluding(commits) > 0
  IN  counted(remoteCommits(repo))

(***************************************************************************)
(* import                                                                  *)
(***************************************************************************)

\* The outcome of a command: exit status, error kind and the repository.
Outcome(status, err, st) == [ status |-> status, err |-> err, st |-> st ]

\* _retrieveSubrepoFromNamespace with the repository root as the current
\* directory: relpath(prefix) normalises, trail appends the separator.
retrieveSubrepo(repo, prefix) == Subrepo(repo, trail(normpath(prefix)))

\* an import that forgets what the import before it brought in
previousFilesNone(st, subrepo, sha1) == {}

\* import_, lines 656-671: the files of the imports found both in HEAD's
\* history and in the history of sha1, and of the last import of subrepo
previousFiles(st, subrepo, sha1) ==
  LET files(current_imports, remote_imports) ==
        UNION { IF /\ remote_key \in DOMAIN current_imports
                   /\ isValidCommit(current_imports[remote_key])
                THEN readCommitFiles(current_imports[remote_key],
                                     remote_key.prefix)
                ELSE {} :
                remote_key \in DOMAIN remote_imports \cup {subrepo} }
  IN  IF ~ hasHead(st) THEN {}
      ELSE files(searchImportedSubreposFlat(HeadLog(st)),
                 searchImportedSubreposFlat(LogOf(sha1)))

\* GitImporter.import_: the staged result, or the failure of git apply
import_(st, subrepo, sha1) ==
  LET files     == readCommitFiles(sha1, subrepo.prefix)
                     \cup previousFiles(st, subrepo, sha1)
      pipe_cmds == diffAwayFiles(st, removeSubsumedFiles(files))
  IN  safeApply(st, pipe_cmds, diffTreePatch(subrepo.prefix, sha1))

\* GitImporter.commitImport
commitImport(st, subrepo, sha1) ==
  LET imports == searchImportedSubreposFlat(LogOf(sha1))
  IN  gitCommit(st, importMessageForCommit(subrepo, sha1, imports, TRUE))

\* performImport behind main: the exit status is 1 for the refusals, the
\* status of the failed git command otherwise
performImport(st, repo, prefix, commit, force) ==
  LET \* commitImport on what import_ left
      committed(subrepo, sha1, applied) ==
        IF ~ applied.ok THEN Outcome(1, "ProcessFailure", st)
        ELSE IF ~ hasCachedChanges(applied.st)
             THEN Outcome(1, "NoChanges", applied.st)
        ELSE Outcome(0, "none", commitImport(applied.st, subrepo, sha1))
      imported(subrepo, resolved) ==
        IF resolved.err = "UnknownCommit" THEN Outcome(128, "UnknownCommit", st)
        ELSE IF resolved.err = "RuntimeError" THEN Outcome(1, "RuntimeError", st)
        ELSE IF ~ force /\ ~ belongsToRepository(repo, resolved.sha1)
             THEN Outcome(1, "NotInRemote", st)
        ELSE committed(subrepo, resolved.sha1,
                       import_(st, subrepo, resolved.sha1))
  IN  IF hasCachedChanges(st) THEN Outcome(1, "DirtyIndex", st)
      ELSE imported(retrieveSubrepo(repo, prefix),
                    resolveRemoteCommit(st, repo, commit))

(***************************************************************************)
(* delete                                                                  *)
(***************************************************************************)

\* a flattening that leaves out the dependencies
flattenImportsTopLevel(tree) == DOMAIN tree

\* flattenImports: the top-level imports and all their dependencies
flattenImports(tree) ==
  DOMAIN tree \cup
  UNION { { tree[k].dependencies[i][1] : i \in 1..Len(tree[k].dependencies) } :
          k \in DOMAIN tree }

\* a search that does not ask whether another import depends on the subrepo
findSubreposForDeletionUnchecked(log, subrepo) ==
  LET all(imports) == << << subrepo, imports[subrepo].sha1 >> >>
                        \o imports[subrepo].dependencies
      found(imports, flattened) ==
        IF subrepo \notin DOMAIN imports
        THEN [ err |-> IF subrepo \in flattened THEN "NotDirectlyImported"
                                                ELSE "UnknownSubrepo",
               delete_dependencies |-> {}, ignore_dependencies |-> {} ]
        ELSE [ err |-> "none",
               delete_dependencies |->
                 { all(imports)[i] : i \in { j \in 1..Len(all(imports)) :
                     all(imports)[j][1] \notin flattened } },
               ignore_dependencies |->
                 { all(imports)[i] : i \in { j \in 2..Len(all(imports)) :
                     all(imports)[j][1] \in flattened } } ]
      search(imports) ==
        found(imports, flattenImports(Only(imports, DOMAIN imports \ {subrepo})))
  IN  search(searchImportedSubrepos(log))

\* _findSubreposForDeletion on the history `log`
findSubreposForDeletion(log, subrepo) ==
  LET all(imports) == << << subrepo, imports[subrepo].sha1 >> >>
                        \o imports[subrepo].dependencies
      found(imports, flattened) ==
        IF subrepo \notin DOMAIN imports
        THEN [ err |-> IF subrepo \in flattened THEN "NotDirectlyImported"
                                                ELSE "UnknownSubrepo",
               delete_dependencies |-> {}, ignore_dependencies |-> {} ]
        ELSE IF subrepo \in flattened
        THEN [ err |-> "StillDependedOn",
               delete_dependencies |-> {}, ignore_dependencies |-> {} ]
        ELSE [ err |-> "none",
               delete_dependencies |->
                 { all(imports)[i] : i \in { j \in 1..Len(all(imports)) :
                     all(imports)[j][1] \notin flattened } },
               ignore_dependencies |->
                 { all(imports)[i] : i \in { j \in 2..Len(all(imports)) :
                     all(imports)[j][1] \in flattened } } ]
      search(imports) ==
        found(imports, flattenImports(Only(imports, DOMAIN imports \ {subrepo})))
  IN  search(searchImportedSubrepos(log))

\* The files of a set of (subrepo, sha1) pairs whose commits are known.
filesOf(dependencies) ==
  UNION { IF isValidCommit(d[2]) THEN readCommitFiles(d[2], d[1].prefix)
          ELSE {} : d \in dependencies }

\* GitImporter.delete after _findSubreposForDeletion succeeded
delete(st, found) ==
  LET ignore_files == filesOf(found.ignore_dependencies)
      delete_files == filesOf(found.delete_dependencies) \ ignore_files
      pipe_cmds    == diffAwayFiles(st, removeSubsumedFiles(delete_files))
  IN  safeApply(st, pipe_cmds, EmptyTree)

\* a commitDelete that names the dependencies that are kept as well
commitDeleteAll(st, subrepo, found) ==
  LET delete_deps ==
        { d \in found.delete_dependencies \cup found.ignore_dependencies :
            d[1] # subrepo }
  IN  gitCommit(st, deleteMessageForCommit(subrepo, delete_deps, TRUE))

\* GitImporter.commitDelete
commitDelete(st, subrepo, found) ==
  LET delete_deps == { d \in found.delete_dependencies : d[1] # subrepo }
  IN  gitCommit(st, deleteMessageForCommit(subrepo, delete_deps, TRUE))

\* performDelete behind main
performDelete(st, repo, prefix) ==
  LET \* commitDelete on what delete left
      committed(subrepo, found, applied) ==
        IF ~ applied.ok THEN Outcome(1, "ProcessFailure", st)
        \* git commit fails when nothing is staged
        ELSE IF ~ hasCachedChanges(applied.st)
             THEN Outcome(1, "ProcessFailure", applied.st)
        ELSE Outcome(0, "none", commitDelete(applied.st, subrepo, found))
      deleted(subrepo, found) ==
        IF found.err # "none" THEN Outcome(1, found.err, st)
        ELSE committed(subrepo, found, delete(st, found))
      named(subrepo) ==
        deleted(subrepo, findSubreposForDeletion(HeadLog(st), subrepo))
  IN  IF hasCachedChanges(st) THEN Outcome(1, "DirtyIndex", st)
      \* delete returns at once without HEAD; commitDelete then fails in
      \* git rev-parse --verify HEAD
      ELSE IF ~ hasHead(st) THEN Outcome(128, "ProcessFailure", st)
      ELSE named(retrieveSubrepo(repo, prefix))

(***************************************************************************)
(* reimport                                                                *)
(***************************************************************************)

\* IMPORT_MSG_RE.match(s): "import subrepo ([^:\n]+):([^ \n]+) at
\* ([a-z0-9]{40})" at the start of s, anything may follow
matchImport(s) ==
  LET \* the groups, given where the first ":" and the first " " after it are
      groups(colon, space) ==
        [ kind |-> "import",
          subrepo |-> Subrepo(SubSeq(s, colon + 1, space - 1),
                              SubSeq(s, Len(ImportLit) + 1, colon - 1)),
          sha1 |-> SubSeq(s, space + Len(AtLit),
                          space + Len(AtLit) + SHA1_LEN - 1) ]
      matched(colon, space, record) ==
        IF /\ colon > Len(ImportLit) + 1
           /\ space > colon + 1
           /\ StartsWith(Drop(s, space - 1), AtLit)
           /\ IsSha1(record.sha1)
        THEN record ELSE NoMatch
      fields(colon, space) == matched(colon, space, groups(colon, space))
      after(colon) == fields(colon, IndexFrom(s, " ", colon + 1))
  IN  IF ~ StartsWith(s, ImportLit) THEN NoMatch
      ELSE after(IndexFrom(s, ":", Len(ImportLit) + 1))

\* DELETE_MSG_RE.match(s): "delete subrepo ([^:\n]+):([^ \n]+)" at the start
matchDelete(s) ==
  LET \* the groups, given where the first ":" is and where the repo ends
      groups(colon, end) ==
        [ kind |-> "delete",
          subrepo |-> Subrepo(SubSeq(s, colon + 1, end),
                              SubSeq(s, Len(DeleteLit) + 1, colon - 1)),
          sha1 |-> None ]
      matched(colon, record) ==
        IF colon > Len(DeleteLit) + 1 /\ record.subrepo.repo # << >>
        THEN record ELSE NoMatch
      fields(colon, space) ==
        matched(colon, groups(colon, IF space = 0 THEN Len(s) ELSE space - 1))
      after(colon) == fields(colon, IndexFrom(s, " ", colon + 1))
  IN  IF ~ StartsWith(s, DeleteLit) THEN NoMatch
      ELSE after(IndexFrom(s, ":", Len(DeleteLit) + 1))

\* expression.match(s) for IMPORT_MSG_RE ("import") and DELETE_MSG_RE
matchRe(expression, s) ==
  IF expression = "import" THEN matchImport(s) ELSE matchDelete(s)

\* the text every match of the expression starts with
literalOf(expression) == IF expression = "import" THEN ImportLit ELSE DeleteLit

\* expression.search(message): the first line and offset in it where the
\* expression matches; line 0 if it matches nowhere.
reSearch(expression, message) ==
  LET starts == UNION { { << i, o >> : o \in 0..Len(message[i]) } :
                        i \in 1..Len(message) }
      matchAt(h) == matchRe(expression, Drop(message[h[1]], h[2]))
      hits(literal) ==
        { h \in starts :
            /\ h[2] + Len(literal) <= Len(message[h[1]])
            /\ SubSeq(message[h[1]], h[2] + 1, h[2] + Len(literal)) = literal
            /\ matchAt(h).kind # "none" }
      at(first) ==
        [ line |-> first[1], offset |-> first[2], record |-> matchAt(first) ]
      search(found) ==
        IF found = {} THEN [ line |-> 0, offset |-> 0, record |-> NoMatch ]
        ELSE at(CHOOSE h \in found :
                  \A g \in found :
                    h[1] < g[1] \/ (h[1] = g[1] /\ h[2] <= g[2]))
  IN  search(hits(literalOf(expression)))

\* old_message[start:] as lines
messageFrom(message, found) ==
  << Drop(message[found.line], found.offset) >>
    \o SubSeq(message, found.line + 1, Len(message))

\* old_message[:start] + new_message as lines
messageUpTo(message, found, new_message) ==
  SubSeq(message, 1, found.line - 1)
    \o << SubSeq(message[found.line], 1, found.offset) \o Head(new_message) >>
    \o Tail(new_message)

\* _isValidCommitMessage: every non-empty line matches the expression
isValidCommitMessage(expression, lines) ==
  \A i \in 1..Len(lines) :
    lines[i] # << >> => matchRe(expression, lines[i]).kind # "none"

\* _retrieveSubject: git show --format=format:%s
retrieveSubject(sha1) == Head(Objects[sha1].message)

\* _findCommitsBySubject: rev-list --remotes=<pattern> --grep=^<subject>$,
\* the pattern being the repo or exactly one of its branches
findCommitsBySubject(repo, subject, branch) ==
  LET refs == { r \in RemoteRefs :
                  r.repo = repo /\ (branch = None \/ r.branch = branch) }
      revs == UNION { Ancestors(r.sha1) : r \in refs }
      grep(message) == \E i \in 1..Len(message) : message[i] = subject
  IN  { c \in revs : grep(Objects[c].message) }

\* _replaceImportMessage, the validity check left to the caller
replaceImportMessage(subrepo, old_message, new_commit, found) ==
  LET imports == searchImportedSubreposFlat(LogOf(new_commit))
      space   == found.line = 1 /\ found.offset = 0
      replaced(new_message) ==
        IF space THEN new_message
        ELSE messageUpTo(old_message, found, new_message)
  IN  replaced(importMessageForCommit(subrepo, new_commit, imports, space))

\* _reimportImport
reimportImport(st, found, branch) ==
  LET subrepo     == found.record.subrepo
      old_commit  == found.record.sha1
      old_message == st.commits[Len(st.commits)].message
      \* amendCommit on what import_ left
      amended(new_commit, applied) ==
        IF ~ applied.ok THEN Outcome(1, "ProcessFailure", st)
        ELSE IF ~ canAmend(applied.st)
             THEN Outcome(1, "ProcessFailure", applied.st)
        ELSE Outcome(0, "none",
                     gitCommitAmend(applied.st,
                                    replaceImportMessage(subrepo, old_message,
                                                         new_commit, found)))
      reimported(new_commit) ==
        IF new_commit = old_commit THEN Outcome(0, "none", st)
        ELSE IF ~ isValidCommitMessage("import",
                                       messageFrom(old_message, found))
             THEN Outcome(1, "InvalidImportMessage", st)
        \* the assertion at the head of import_
        ELSE IF trail(subrepo.prefix) # subrepo.prefix
             THEN Outcome(1, "AssertionError", st)
        ELSE amended(new_commit, import_(st, subrepo, new_commit))
      chosen(new_commits) ==
        IF Cardinality(new_commits) # 1
        THEN Outcome(1, "ReimportAmbiguous", st)
        ELSE reimported(CHOOSE c \in new_commits : TRUE)
  IN  \* git show fails for a commit the object store does not have
      IF ~ isValidCommit(old_commit) THEN Outcome(128, "ProcessFailure", st)
      ELSE chosen(findCommitsBySubject(subrepo.repo,
                                       retrieveSubject(old_commit), branch))

\* _reimportDelete with _replaceDeleteMessage
reimportDelete(st, found) ==
  LET subrepo     == found.record.subrepo
      old_message == st.commits[Len(st.commits)].message
      space       == found.line = 1 /\ found.offset = 0
      delete_deps(deletion) ==
        { d \in deletion.delete_dependencies : d[1] # subrepo }
      replaced(message) ==
        IF space THEN message ELSE messageUpTo(old_message, found, message)
      new_message(deletion) ==
        replaced(deleteMessageForCommit(subrepo, delete_deps(deletion), space))
      \* amendCommit on what delete left
      amended(deletion, applied) ==
        IF ~ applied.ok THEN Outcome(1, "ProcessFailure", st)
        ELSE IF ~ canAmend(applied.st)
             THEN Outcome(1, "ProcessFailure", applied.st)
        ELSE Outcome(0, "none",
                     gitCommitAmend(applied.st, new_message(deletion)))
      deleted(deletion) ==
        IF deletion.err # "none" THEN Outcome(1, deletion.err, st)
        ELSE IF trail(subrepo.prefix) # subrepo.prefix
             THEN Outcome(1, "AssertionError", st)
        ELSE amended(deletion, delete(st, deletion))
  IN  IF ~ isValidCommitMessage("delete", messageFrom(old_message, found))
      THEN Outcome(1, "InvalidImportMessage", st)
      \* git rev-parse --verify HEAD^ fails on a root commit
      ELSE IF Len(st.commits) < 2 THEN Outcome(128, "ProcessFailure", st)
      ELSE deleted(findSubreposForDeletion(ParentLog(st), subrepo))

\* GitImporter.reimport
reimport(st, branch) ==
  LET old_message == st.commits[Len(st.commits)].message
      deleting(delete_match) ==
        IF delete_match.line # 0 THEN reimportDelete(st, delete_match)
        ELSE Outcome(0, "none", st)
      importing(import_match) ==
        IF import_match.line # 0 THEN reimportImport(st, import_match, branch)
        ELSE deleting(reSearch("delete", old_message))
  IN  IF ~ hasHead(st) THEN Outcome(0, "none", st)
      ELSE importing(reSearch("import", old_message))

\* performReimport behind main
performReimport(st, branch) ==
  IF hasCachedChanges(st) THEN Outcome(1, "DirtyIndex", st)
  ELSE reimport(st, branch)

(***************************************************************************)
(* The reimport of a range of commits: git rebase --interactive           *)
(* --keep-empty --exec=<reimport> <commit>, as GitRepository.reimport of   *)
(* the test suite runs it.  A stopped rebase is the state it started in,   *)
(* which git rebase --abort goes back to; None while no rebase is in       *)
(* progress.                                                               *)
(***************************************************************************)

\* what a tree holds at a path: the set of its content, empty without one
At(tree, path) == IF path \in DOMAIN tree THEN { tree[path] } ELSE {}

\* some path was changed on both sides of a three-way merge, differently
conflicts(base, ours, theirs) ==
  \E p \in DOMAIN base \cup DOMAIN ours \cup DOMAIN theirs :
    /\ At(ours, p) # At(base, p)
    /\ At(theirs, p) # At(base, p)
    /\ At(ours, p) # At(theirs, p)

\* the three-way merge of trees without conflicts: per path, what the side
\* that changed it holds
mergeTrees(base, ours, theirs) ==
  LET side(p) == IF At(theirs, p) = At(base, p) THEN At(ours, p)
                 ELSE At(theirs, p)
  IN  [ p \in { q \in DOMAIN ours \cup DOMAIN theirs : side(q) # {} } |->
          CHOOSE c \in side(p) : TRUE ]

\* a file of the tree lies where the tree has a directory
clashes(tree) == \E p \in DOMAIN tree : Collides(p, DOMAIN tree \ { p })

\* pick <commit>: the changes the commit made to its parent go on top of
\* HEAD.  The rebase stops with status 1 at a conflict and at a commit that
\* had changes and has none left; --keep-empty keeps a commit that had none.
pick(st, commit, parent_tree) ==
  LET picked(merged) ==
        IF clashes(merged) THEN Outcome(1, "Conflict", st)
        ELSE IF merged = HeadTree(st) /\ commit.tree # parent_tree
        THEN Outcome(1, "Empty", st)
        ELSE Outcome(0, "none",
                     Repo(Append(st.commits, [ message |-> commit.message,
                                               tree |-> merged ]),
                          merged, merged))
  IN  IF conflicts(parent_tree, HeadTree(st), commit.tree)
      THEN Outcome(1, "Conflict", st)
      ELSE picked(mergeTrees(parent_tree, HeadTree(st), commit.tree))

\* The todo list from the i-th commit of the rebased history on: pick the
\* commit, exec the reimport.  The rebase stops with status 1 when the
\* command fails or leaves changes in the index or the working tree.
RECURSIVE rebaseTodo(_, _, _, _)
rebaseTodo(st, orig, i, branch) ==
  LET executed(result) ==
        IF result.status # 0 THEN Outcome(1, result.err, result.st)
        ELSE IF hasCachedChanges(result.st) \/ result.st.worktree # result.st.index
        THEN Outcome(1, "Dirty", result.st)
        ELSE rebaseTodo(result.st, orig, i + 1, branch)
      picked(result) ==
        IF result.status # 0 THEN result
        ELSE executed(performReimport(result.st, branch))
  IN  IF i > Len(orig) THEN Outcome(0, "none", st)
      ELSE picked(pick(st, orig[i],
                       IF i = 1 THEN EmptyTree ELSE orig[i - 1].tree))

RebaseOutcome(status, err, st, in_progress) ==
  [ status |-> status, err |-> err, st |-> st, rebase |-> in_progress ]

\* self.rebase("--interactive", "--keep-empty", "--exec=...", commit): the
\* commits after the base-th one are rebased.  git rebase does not start
\* (status 128) while another one is in progress, nor (status 1) with
\* changes in the index or the working tree; it ends with no rebase in
\* progress when every step succeeded and stops where one did not.
rebaseExec(st, in_progress, base, branch) ==
  LET onto == IF base = 0 THEN EmptyTree ELSE st.commits[base].tree
      ended(result) ==
        RebaseOutcome(result.status, result.err, result.st,
                      IF result.status = 0 THEN None ELSE st)
  IN  IF in_progress # None
      THEN RebaseOutcome(128, "ProcessError", st, in_progress)
      ELSE IF hasCachedChanges(st) \/ st.worktree # st.index
      THEN RebaseOutcome(1, "ProcessError", st, None)
      ELSE ended(rebaseTodo(Repo(SubSeq(st.commits, 1, base), onto, onto),
                            st.commits, base + 1, branch))

\* a handler of the failure that leaves the rebase as it stopped
rebaseAbortSkipped(result) == result

\* self.rebase("--abort") in the handler of the failure, which is raised
\* again after it: the state the rebase started in comes back; without a
\* rebase in progress the abort itself fails, with status 128.
rebaseAbort(result) ==
  IF result.rebase = None
  THEN RebaseOutcome(128, "ProcessError", result.st, None)
  ELSE RebaseOutcome(result.status, result.err, result.rebase, None)

\* GitRepository.reimport
GitRepository_reimport(st, in_progress, base, branch) ==
  LET tried(result) ==
        IF result.status # 0 THEN rebaseAbort(result) ELSE result
  IN  tried(rebaseExec(st, in_progress, base, branch))

(***************************************************************************)
(* The importing repository as a state machine                             *)
(***************************************************************************)

VARIABLES
  commits,   \* the commits of the checked out branch, oldest first
  index,     \* the index: path -> content
  worktree,  \* the working tree: path -> content
  rebase,    \* the state a rebase in progress started in, None without one
  last,      \* the last command that changed the repository: its
             \* arguments, the state it started in, its exit status and
             \* its error
  call,      \* deso.execute: the call of pipeline() or spring()
  par,       \* the parent process: where it is in the call, its locals
  procs,     \* the children forked, in the order of their fork
  pipes,     \* the data in each pipe
  handles,   \* deso.cleanup: the _Function objects defer() returned
  functions, \* the handles in _Defer._functions
  ran,       \* the deferred functions that ran, and when
  scope,     \* where the with block is, and the exception leaving it
  input,     \* the argument of a function of the program applied alone
  output     \* what the function returned, None before it is applied

gitVars == << commits, index, worktree, rebase, last >>

execVars == << call, par, procs, pipes >>

deferVars == << handles, functions, ran, scope >>

funVars == << input, output >>

vars == << gitVars, execVars, deferVars, funVars >>

\* The longest history explored.
MaxCommits == 3

\* The import commands tried: repo, prefix, commit, force.  L1 goes to the
\* root and below l/, at its first commit, at its tip and at the commit of
\* its fork; L2 and M2, which import L1 themselves, go to the root and L2
\* below l/ as well; C1a is no commit of L2; X0 is no remote.
ImportArgs ==
  { << L1, << curdir >>, C1a, FALSE >>,
    << L1, << curdir >>, master, FALSE >>,
    << L1, << "l" >>, C1a, FALSE >>,
    << L1, << "l" >>, master, FALSE >>,
    << L1, << "l" >>, Cf1, FALSE >>,
    << L2, << curdir >>, master, FALSE >>,
    << L2, << "l" >>, master, FALSE >>,
    << L2, << "l" >>, C1a, FALSE >>,
    << L2, << "l" >>, C1a, TRUE >>,
    << M2, << curdir >>, master, FALSE >>,
    << E0, << "l" >>, master, FALSE >>,
    << X0, << curdir >>, master, FALSE >> }

\* The delete commands tried: repo, prefix.
DeleteArgs == { L1, L2, M2 } \X { << curdir >>, << "l" >> }

BranchArgs == { None, master }

\* the file the user commits: it belongs to no subrepo
UserFiles == { << "u" >> }

\* the file the user stages: it collides with a file of L1 below l/
StageFiles == { << "l", sep, "a" >> }

Current == Repo(commits, index, worktree)

Command(op, repo, prefix, commit, force, branch, pre, status, err) ==
  [ op |-> op, repo |-> repo, prefix |-> prefix, commit |-> commit,
    force |-> force, branch |-> branch, pre |-> pre, status |-> status,
    err |-> err ]

Init ==
  /\ commits = << >>
  /\ index = EmptyTree
  /\ worktree = EmptyTree
  /\ rebase = None
  /\ last = Command("init", None, None, None, FALSE, None,
                    Repo(<< >>, EmptyTree, EmptyTree), 0, "none")
  /\ call = None /\ par = None /\ procs = << >> /\ pipes = << >>
  /\ handles = << >> /\ functions = << >> /\ ran = << >> /\ scope = None
  /\ input = None /\ output = None

\* What last becomes when a command ends in the state st: a command that
\* leaves the repository as it is (a refusal, an import or reimport of what
\* is there) is not recorded.
Recorded(st, command) == IF st = Current THEN last ELSE command

\* git subrepo import [--force] <repo> <prefix> <commit>
Import ==
  \E args \in ImportArgs :
    \E result \in { performImport(Current, args[1], args[2], args[3], args[4]) } :
        /\ Len(result.st.commits) <= MaxCommits
        /\ commits' = result.st.commits
        /\ index' = result.st.index
        /\ worktree' = result.st.worktree
        /\ rebase' = rebase
        /\ last' = Recorded(result.st,
                            Command("import", args[1], args[2], args[3], args[4],
                                    None, Current, result.status, result.err))
        /\ UNCHANGED << execVars, deferVars, funVars >>

\* git subrepo delete <repo> <prefix>
Delete ==
  \E args \in DeleteArgs :
    \E result \in { performDelete(Current, args[1], args[2]) } :
        /\ Len(result.st.commits) <= MaxCommits
        /\ commits' = result.st.commits
        /\ index' = result.st.index
        /\ worktree' = result.st.worktree
        /\ rebase' = rebase
        /\ last' = Recorded(result.st,
                            Command("delete", args[1], args[2], None, FALSE,
                                    None, Current, result.status, result.err))
        /\ UNCHANGED << execVars, deferVars, funVars >>

\* git subrepo reimport [--branch=<branch>]
Reimport ==
  \E branch \in BranchArgs :
    \E result \in { performReimport(Current, branch) } :
        /\ Len(result.st.commits) <= MaxCommits
        /\ commits' = result.st.commits
        /\ index' = result.st.index
        /\ worktree' = result.st.worktree
        /\ rebase' = rebase
        /\ last' = Recorded(result.st,
                            Command("reimport", None, None, None, FALSE,
                                    branch, Current, result.status, result.err))
        /\ UNCHANGED << execVars, deferVars, funVars >>

\* the user adds a file of their own and commits it
UserCommit ==
  \E file_ \in UserFiles :
    LET added == Put(index, file_, "u1")
    IN  /\ index = HeadTree(Current)
        /\ file_ \notin DOMAIN index
        /\ ~ Collides(file_, DOMAIN index)
        /\ Len(commits) < MaxCommits
        /\ commits' = Append(commits, [ message |-> << << "u", "1" >> >>,
                                        tree |-> added ])
        /\ index' = added
        /\ worktree' = added
        /\ rebase' = rebase
        /\ last' = Command("commit", None, file_, None, FALSE, None,
                           Current, 0, "none")
        /\ UNCHANGED << execVars, deferVars, funVars >>

\* the user writes a file and stages it: git add
UserStage ==
  \E file_ \in StageFiles :
    LET added == Put(index, file_, "s1")
    IN  /\ index = HeadTree(Current)
        /\ commits' = commits
        /\ index' = added
        /\ worktree' = added
        /\ rebase' = rebase
        /\ last' = Command("stage", None, file_, None, FALSE, None,
                           Current, 0, "none")
        /\ UNCHANGED << execVars, deferVars, funVars >>

\* GitRepository.reimport(commit, branch) of the test suite
RebaseReimport ==
  \E base \in 0..(Len(commits) - 1), branch \in BranchArgs :
    \E result \in { GitRepository_reimport(Current, rebase, base, branch) } :
        /\ commits' = result.st.commits
        /\ index' = result.st.index
        /\ worktree' = result.st.worktree
        /\ rebase' = result.rebase
        /\ last' = Recorded(result.st,
                            Command("rebase", None, None, None, FALSE,
                                    branch, Current, result.status, result.err))
        /\ UNCHANGED << execVars, deferVars, funVars >>

Next ==
  \/ Import
  \/ Delete
  \/ Reimport
  \/ UserCommit
  \/ UserStage

Spec == Init /\ [][Next]_vars

\* the commands of the program and the rebase of the test repository
NextRebase ==
  \/ Import
  \/ Delete
  \/ Reimport
  \/ RebaseReimport
  \/ UserCommit
  \/ UserStage

SpecRebase == Init /\ [][NextRebase]_vars

\* The commands tried with M3, a remote with two imports of its own: M3
\* goes to the root and below l/, and L1 and F1 go where M3 has them.
NestedImportArgs ==
  { << M3, << curdir >>, master, FALSE >>,
    << M3, << "l" >>, master, FALSE >>,
    << L1, << "l" >>, master, FALSE >>,
    << L1, << "l" >>, C1a, FALSE >>,
    << F1, << "f" >>, master, FALSE >>,
    << L2, << curdir >>, master, FALSE >> }

NestedDeleteArgs == { M3, L1, F1, L2 } \X { << curdir >>, << "l" >>, << "f" >> }

\* git subrepo import <repo> <prefix> <commit>, of these commands
ImportNested ==
  \E args \in NestedImportArgs :
    \E result \in { performImport(Current, args[1], args[2], args[3], args[4]) } :
        /\ Len(result.st.commits) <= MaxCommits
        /\ commits' = result.st.commits
        /\ index' = result.st.index
        /\ worktree' = result.st.worktree
        /\ rebase' = rebase
        /\ last' = Recorded(result.st,
                            Command("import", args[1], args[2], args[3], args[4],
                                    None, Current, result.status, result.err))
        /\ UNCHANGED << execVars, deferVars, funVars >>

\* git subrepo delete <repo> <prefix>, of these commands
DeleteNested ==
  \E args \in NestedDeleteArgs :
    \E result \in { performDelete(Current, args[1], args[2]) } :
        /\ Len(result.st.commits) <= MaxCommits
        /\ commits' = result.st.commits
        /\ index' = result.st.index
        /\ worktree' = result.st.worktree
        /\ rebase' = rebase
        /\ last' = Recorded(result.st,
                            Command("delete", args[1], args[2], None, FALSE,
                                    None, Current, result.status, result.err))
        /\ UNCHANGED << execVars, deferVars, funVars >>

NextNested ==
  \/ ImportNested
  \/ DeleteNested

SpecNested == Init /\ [][NextNested]_vars

(***************************************************************************)
(* The vocabulary of the properties                                        *)
(***************************************************************************)

\* path lies under the prefix; every path lies under the root prefix
Under(path, prefix) == prefix = ROOT_PREFIX \/ StartsWith(path, prefix)

\* the files of a tree under a prefix, with their contents
ContentUnder(tree, prefix) ==
  [ p \in { q \in DOMAIN tree : Under(q, prefix) } |-> tree[p] ]

\* path exists in both trees with the same content
Same(path, before, after) ==
  path \in DOMAIN before /\ path \in DOMAIN after /\ before[path] = after[path]

EmptyRepo == Repo(<< >>, EmptyTree, EmptyTree)

\* the index holds what HEAD holds
Clean(st) == st.index = HeadTree(st)

\* the subrepo and the commit the last command named
lastSubrepo == retrieveSubrepo(last.repo, last.prefix)

lastSha == resolveRemoteCommit(last.pre, last.repo, last.commit).sha1

\* the last command was an import, or a delete, that succeeded; no write
\* followed it, since every write is recorded in last
ImportedOk == last.op = "import" /\ last.status = 0

DeletedOk == last.op = "delete" /\ last.status = 0

\* the tree of the imported commit below the prefix of the import
ImportedTree == Below(lastSubrepo.prefix, Objects[lastSha].tree)

\* the identities that the imports of a dependency tree pull in
DependencyIds(imports) ==
  UNION { { imports[k].dependencies[i][1] :
              i \in 1..Len(imports[k].dependencies) } : k \in DOMAIN imports }

\* the messages of the first n commits of the branch, newest first
LogUpTo(n) == [ i \in 1..n |-> commits[n + 1 - i].message ]

\* the records for an identity in a message
RecordsFor(message, id) ==
  LET records == importsAndDeletions(message)
  IN  { records[i] : i \in { j \in 1..Len(records) : records[j].subrepo = id } }

\* the identities with a record somewhere in a log
IdsOf(log) ==
  UNION { { r.subrepo : r \in
              { importsAndDeletions(log[i])[j] :
                  j \in 1..Len(importsAndDeletions(log[i])) } } :
          i \in 1..Len(log) }

\* the position in a log of the newest commit with a record for an identity
Newest(log, id) ==
  CHOOSE i \in 1..Len(log) :
    /\ RecordsFor(log[i], id) # {}
    /\ \A j \in 1..(i - 1) : RecordsFor(log[j], id) = {}

(***************************************************************************)
(* C1                                                                      *)
(***************************************************************************)

\* C1 as stated: after a successful import of (r, p) at c with a non-root
\* prefix p, the set of files under p in the working tree and their contents
\* are identical to the tree of c.
C1_TreeIdentical ==
  (ImportedOk /\ lastSubrepo.prefix # ROOT_PREFIX) =>
    ContentUnder(worktree, lastSubrepo.prefix) = ImportedTree

\* C1, amended: after a successful import of (r, p) at c with a non-root
\* prefix p, every file of the tree of c is under p in the working tree with
\* the content it has in c, and every other file under p was there before the
\* import with the same content.
C1_TreePresent ==
  (ImportedOk /\ lastSubrepo.prefix # ROOT_PREFIX) =>
    /\ \A path \in DOMAIN ImportedTree :
         Same(path, ImportedTree, worktree)
    /\ \A path \in DOMAIN ContentUnder(worktree, lastSubrepo.prefix) :
         path \notin DOMAIN ImportedTree => Same(path, last.pre.worktree, worktree)

\* an import below l/ succeeded where other files live below l/ as well
C1_Witness ==
  /\ ImportedOk
  /\ lastSubrepo.prefix # ROOT_PREFIX
  /\ DOMAIN ImportedTree # {}
  /\ DOMAIN ContentUnder(worktree, lastSubrepo.prefix) \ DOMAIN ImportedTree # {}

(***************************************************************************)
(* C2                                                                      *)
(***************************************************************************)

\* C2: a successful import of (r, p) at c leaves every file that existed
\* outside p before the import in place and unmodified.
C2_OutsideUnchanged ==
  ImportedOk =>
    \A path \in DOMAIN last.pre.worktree :
      ~ Under(path, lastSubrepo.prefix) => Same(path, last.pre.worktree, worktree)

(***************************************************************************)
(* C3                                                                      *)
(***************************************************************************)

\* the commit at which the subrepo of the last command was imported before
lastPrevious == searchImportedSubreposFlat(HeadLog(last.pre))[lastSubrepo]

\* the last command imported a subrepo that was imported before
Reimported ==
  /\ ImportedOk
  /\ hasHead(last.pre)
  /\ lastSubrepo \in DOMAIN searchImportedSubreposFlat(HeadLog(last.pre))
  /\ isValidCommit(lastPrevious)

\* C3: when (r, p) is imported at c1 and is imported again at c2, every
\* top-level entry of c1 that c2 does not have is gone from under p, for the
\* root prefix and for the other prefixes.
C3_StaleEntriesGone ==
  Reimported =>
    \A entry \in lsTree(lastPrevious) \ lsTree(lastSha) :
      ~ lexists(Current, normpath(join(lastSubrepo.prefix, entry)))

\* an import replaced a commit by one that lacks an entry which was there
C3_Witness ==
  /\ Reimported
  /\ \E entry \in lsTree(lastPrevious) \ lsTree(lastSha) :
       lexists(last.pre, normpath(join(lastSubrepo.prefix, entry)))

(***************************************************************************)
(* C4                                                                      *)
(***************************************************************************)

\* C4: for every commit C of the history, an identity is among the imports
\* visible from C exactly when the newest commit reachable from C with a
\* record for it has an import record for it, and the SHA-1 reported is the
\* one of that record.
C4_NewestRecordDecides ==
  \A n \in 1..Len(commits) :
    LET log     == LogUpTo(n)
        visible == searchImportedSubreposFlat(log)
    IN  /\ DOMAIN visible \subseteq IdsOf(log)
        /\ \A id \in IdsOf(log) :
             LET newest == RecordsFor(log[Newest(log, id)], id)
             IN  /\ id \in DOMAIN visible <=>
                      \E r \in newest : r.kind = "import"
                 /\ id \in DOMAIN visible =>
                      \E r \in newest : r.kind = "import" /\ r.sha1 = visible[id]

\* import, delete, import of one identity: visible again at the last SHA-1,
\* which is not the first one
C4_Witness ==
  /\ Len(commits) = 3
  /\ \E id \in IdsOf(LogUpTo(3)) :
       /\ \E r \in RecordsFor(commits[1].message, id) :
            r.kind = "import" /\ r.sha1 = C1a
       /\ \E r \in RecordsFor(commits[2].message, id) : r.kind = "delete"
       /\ id \notin DOMAIN searchImportedSubreposFlat(LogUpTo(2))
       /\ \E r \in RecordsFor(commits[3].message, id) :
            r.kind = "import" /\ r.sha1 = C1b
       /\ id \in DOMAIN searchImportedSubreposFlat(LogUpTo(3))
       /\ searchImportedSubreposFlat(LogUpTo(3))[id] = C1b

(***************************************************************************)
(* C5                                                                      *)
(***************************************************************************)

\* the command leaves with status 1 and the repository as it was
Refused(result, st) == result.status = 1 /\ result.st = st

\* C5: while the index holds staged changes, import, delete and reimport
\* each refuse with exit status 1, create no commit and change neither the
\* index nor the working tree.
C5_DirtyIndexRefused ==
  ~ Clean(Current) =>
    /\ \A args \in ImportArgs :
         Refused(performImport(Current, args[1], args[2], args[3], args[4]),
                 Current)
    /\ \A args \in DeleteArgs :
         Refused(performDelete(Current, args[1], args[2]), Current)
    /\ \A branch \in BranchArgs :
         Refused(performReimport(Current, branch), Current)

\* l/a of the imported L1 is staged with other content, and the import that
\* would overwrite it, the delete and the reimport are refused
C5_Witness ==
  /\ << "l", sep, "a" >> \in DOMAIN HeadTree(Current)
  /\ index[<< "l", sep, "a" >>] = "s1"
  /\ HeadTree(Current)[<< "l", sep, "a" >>] # "s1"
  /\ Subrepo(L1, LibPrefix) \in DOMAIN searchImportedSubrepos(HeadLog(Current))
  /\ performImport(Current, L1, << "l" >>, master, FALSE).err = "DirtyIndex"
  /\ performDelete(Current, L1, << "l" >>).err = "DirtyIndex"
  /\ performReimport(Current, None).err = "DirtyIndex"

(***************************************************************************)
(* C6                                                                      *)
(***************************************************************************)

\* C6: without --force, an import for remote r of a commit that is not
\* reachable from a remote-tracking tip of r is refused with NotInRemote,
\* exit status 1, and changes nothing.
C6_NotInRemoteRefused ==
  ( /\ last.op = "import"
    /\ ~ last.force
    /\ lastSha \notin remoteCommits(last.repo) )
  => last.err = "NotInRemote" /\ last.status = 1 /\ Current = last.pre

(***************************************************************************)
(* C7                                                                      *)
(***************************************************************************)

\* C7: a successful delete of a directly imported subrepo X leaves in place
\* the entries of every dependency of X that is also imported directly or
\* pulled in by another visible import.
C7_SharedDependencyKept ==
  DeletedOk =>
    LET imports == searchImportedSubrepos(HeadLog(last.pre))
        others  == Only(imports, DOMAIN imports \ {lastSubrepo})
        needed  == DOMAIN others \cup DependencyIds(others)
        deps    == imports[lastSubrepo].dependencies
    IN  \A i \in 1..Len(deps) :
          (deps[i][1] \in needed /\ isValidCommit(deps[i][2])) =>
            \A path \in DOMAIN last.pre.worktree :
              (\E entry \in readCommitFiles(deps[i][2], deps[i][1].prefix) :
                  IsAtOrBelow(path, entry))
              => Same(path, last.pre.worktree, worktree)

(***************************************************************************)
(* C8                                                                      *)
(***************************************************************************)

\* C8: delete of an identity that is no top-level import visible from HEAD
\* fails, with NotDirectlyImported when the identity is visible as a
\* dependency of another import and with UnknownSubrepo otherwise; no commit
\* is made, index and working tree stay as they are.
C8_NotTopLevelRefused ==
  (Clean(Current) /\ hasHead(Current)) =>
    \A args \in DeleteArgs :
      LET subrepo == retrieveSubrepo(args[1], args[2])
          imports == searchImportedSubrepos(HeadLog(Current))
          result  == performDelete(Current, args[1], args[2])
      IN  subrepo \notin DOMAIN imports =>
            /\ Refused(result, Current)
            /\ result.err = IF subrepo \in DependencyIds(imports)
                            THEN "NotDirectlyImported" ELSE "UnknownSubrepo"

\* L1 below l/ is there as a dependency of M2 only: its delete is refused as
\* not directly imported, the delete of L1 at the root, where it is not
\* imported, as unknown
C8_Witness ==
  /\ Clean(Current)
  /\ Subrepo(L1, LibPrefix) \notin DOMAIN searchImportedSubrepos(HeadLog(Current))
  /\ Subrepo(L1, LibPrefix)
       \in DependencyIds(searchImportedSubrepos(HeadLog(Current)))
  /\ performDelete(Current, L1, << "l" >>).err = "NotDirectlyImported"
  /\ performDelete(Current, L1, << curdir >>).err = "UnknownSubrepo"

(***************************************************************************)
(* C9                                                                      *)
(***************************************************************************)

\* C9: delete of an identity that is imported directly and is a dependency
\* of another import visible from HEAD fails with StillDependedOn, makes no
\* commit and leaves index and working tree as they are.
C9_StillDependedOnRefused ==
  (Clean(Current) /\ hasHead(Current)) =>
    \A args \in DeleteArgs :
      LET subrepo == retrieveSubrepo(args[1], args[2])
          imports == searchImportedSubrepos(HeadLog(Current))
          others  == Only(imports, DOMAIN imports \ {subrepo})
          result  == performDelete(Current, args[1], args[2])
      IN  (subrepo \in DOMAIN imports /\ subrepo \in DependencyIds(others)) =>
            result.err = "StillDependedOn" /\ Refused(result, Current)

\* L1 is imported at the root directly and by L2: its delete is refused
C9_Witness ==
  /\ Clean(Current)
  /\ { Subrepo(L1, ROOT_PREFIX), Subrepo(L2, ROOT_PREFIX) }
       \subseteq DOMAIN searchImportedSubrepos(HeadLog(Current))
  /\ Subrepo(L1, ROOT_PREFIX)
       \in DependencyIds(searchImportedSubrepos(HeadLog(Current)))
  /\ performDelete(Current, L1, << curdir >>).err = "StillDependedOn"

(***************************************************************************)
(* C10                                                                     *)
(***************************************************************************)

\* Scenario S3: the repository has imported L2 at the root and nothing else;
\* L2 has imported L1 at its root.
InS3 == Current = performImport(EmptyRepo, L2, << curdir >>, master, FALSE).st

\* C10 as stated: in scenario S3, delete L1 . fails with StillDependedOn.
C10_StillDependedOn ==
  InS3 => performDelete(Current, L1, << curdir >>).err = "StillDependedOn"

\* C10, amended: in scenario S3, delete L1 . fails with NotDirectlyImported,
\* exit status 1, and changes nothing.
C10_NotDirectlyImported ==
  InS3 =>
    /\ performDelete(Current, L1, << curdir >>).err = "NotDirectlyImported"
    /\ Refused(performDelete(Current, L1, << curdir >>), Current)

\* scenario S3 is reached: L2 is the one top-level import, L1 its dependency
C10_Witness ==
  /\ InS3
  /\ Len(commits) = 1
  /\ << "a" >> \in DOMAIN worktree
  /\ << "b" >> \in DOMAIN worktree
  /\ performDelete(Current, L1, << curdir >>).status = 1

(***************************************************************************)
(* C11                                                                     *)
(***************************************************************************)

\* the message of HEAD in a repository with a commit
HeadMessage(st) == st.commits[Len(st.commits)].message

\* the import record reimport finds in the message of HEAD; line 0 if none
HeadImport(st) ==
  IF hasHead(st) THEN reSearch("import", HeadMessage(st))
  ELSE [ line |-> 0, offset |-> 0, record |-> NoMatch ]

\* the commits reachable from the remote-tracking refs of a repo, of one
\* branch if one is given, whose subject is the given one
SubjectMatches(repo, subject, branch) ==
  { c \in DOMAIN Objects :
      /\ \E r \in RemoteRefs :
           /\ r.repo = repo
           /\ (branch = None \/ r.branch = branch)
           /\ c \in Ancestors(r.sha1)
      /\ Head(Objects[c].message) = subject }

\* the commits of the remote of the record in HEAD's message with the
\* subject of the recorded commit
Candidates(st, branch) ==
  IF HeadImport(st).line # 0 /\ isValidCommit(HeadImport(st).record.sha1)
  THEN SubjectMatches(HeadImport(st).record.subrepo.repo,
                      Head(Objects[HeadImport(st).record.sha1].message), branch)
  ELSE {}

\* the tree of a commit where an import at the prefix puts it
TreeAt(prefix, sha1) ==
  IF prefix = ROOT_PREFIX THEN Objects[sha1].tree
  ELSE Below(prefix, Objects[sha1].tree)

\* the last command was a reimport of an import commit whose one candidate
\* is another commit than the recorded one, and it succeeded
ReimportedOk ==
  /\ last.op = "reimport"
  /\ last.status = 0
  /\ HeadImport(last.pre).line # 0
  /\ Cardinality(Candidates(last.pre, last.branch)) = 1
  /\ HeadImport(last.pre).record.sha1 \notin Candidates(last.pre, last.branch)

\* the subrepo and the commits of that reimport
oldRecord == HeadImport(last.pre).record

newSha == CHOOSE c \in Candidates(last.pre, last.branch) : TRUE

\* HEAD is replaced, the commits below it are kept, and the message of the
\* new HEAD records the new commit for the same subrepo
AmendedInPlace ==
  /\ Len(commits) = Len(last.pre.commits)
  /\ SubSeq(commits, 1, Len(commits) - 1)
       = SubSeq(last.pre.commits, 1, Len(commits) - 1)
  /\ HeadImport(Current).line # 0
  /\ HeadImport(Current).record.subrepo = oldRecord.subrepo
  /\ HeadImport(Current).record.sha1 = newSha
  /\ HeadTree(Current) = worktree

\* C11 as stated: when HEAD is an import commit recording (r, p) at old_sha
\* and exactly one commit of r's remote-tracking refs has the subject of
\* old_sha and is another commit new_sha, reimport amends HEAD in place, its
\* message records new_sha and the content under p equals the tree of new_sha.
C11_ContentIdentical ==
  ReimportedOk =>
    /\ AmendedInPlace
    /\ ContentUnder(worktree, oldRecord.subrepo.prefix)
         = TreeAt(oldRecord.subrepo.prefix, newSha)

\* C11, amended: a successful reimport in that situation amends HEAD in
\* place, its message records new_sha, every file of the tree of new_sha is
\* under p with the content it has in new_sha, and every other file under p
\* was there before the reimport with the same content.
C11_AmendedInPlace ==
  ReimportedOk =>
    /\ AmendedInPlace
    /\ \A path \in DOMAIN TreeAt(oldRecord.subrepo.prefix, newSha) :
         Same(path, TreeAt(oldRecord.subrepo.prefix, newSha), worktree)
    /\ \A path \in DOMAIN ContentUnder(worktree, oldRecord.subrepo.prefix) :
         path \notin DOMAIN TreeAt(oldRecord.subrepo.prefix, newSha)
           => Same(path, last.pre.worktree, worktree)

\* HEAD recorded L1 below l/ at the commit of the fork, whose subject only
\* the tip of L1 has: the reimport took l/f away and brought l/e
C11_Witness ==
  /\ ReimportedOk
  /\ oldRecord.sha1 = Cf1
  /\ newSha = C1b
  /\ << "l", sep, "f" >> \in DOMAIN last.pre.worktree
  /\ << "l", sep, "f" >> \notin DOMAIN worktree
  /\ << "l", sep, "e" >> \in DOMAIN worktree

(***************************************************************************)
(* C12                                                                     *)
(***************************************************************************)

\* HEAD is an import commit whose recorded commit the object store has, and
\* the index is clean
AtImportCommit ==
  /\ Clean(Current)
  /\ HeadImport(Current).line # 0
  /\ isValidCommit(HeadImport(Current).record.sha1)

\* C12: reimport of an import commit with no candidate or with two or more
\* candidates, among the commits of the remote's tracking refs (of the given
\* branch if any) whose subject is that of the recorded commit, fails with
\* ReimportAmbiguous and leaves HEAD, index and working tree as they are.
C12_NotOneCandidateRefused ==
  \A branch \in BranchArgs :
    (AtImportCommit /\ Cardinality(Candidates(Current, branch)) # 1) =>
      /\ Refused(performReimport(Current, branch), Current)
      /\ performReimport(Current, branch).err = "ReimportAmbiguous"

(***************************************************************************)
(* C13                                                                     *)
(***************************************************************************)

\* C13: when the commit recorded in HEAD's import record is itself the one
\* commit of the remote with its subject, reimport is a no-op: it succeeds,
\* HEAD is not amended, index and working tree are unchanged.
C13_RecordedIsUniqueNoOp ==
  \A branch \in BranchArgs :
    ( /\ AtImportCommit
      /\ Candidates(Current, branch) = { HeadImport(Current).record.sha1 } )
    => performReimport(Current, branch) = Outcome(0, "none", Current)

(***************************************************************************)
(* C14                                                                     *)
(***************************************************************************)

\* C14: no rebase is ever left in progress; when a step of the rebase that
\* drives the reimport fails, the failure is reported with the rebase
\* aborted: the repository is as it was before the rebase.
C14_RebaseAborted ==
  /\ rebase = None
  /\ \A base \in 0..(Len(commits) - 1), branch \in BranchArgs :
       \A result \in { GitRepository_reimport(Current, rebase, base, branch) } :
         result.status # 0 => result.rebase = None /\ result.st = Current

\* a rebase rewrote a commit and stopped at a later step, and the failed
\* reimport left the repository as it was
C14_Witness ==
  \E base \in 0..(Len(commits) - 1), branch \in BranchArgs :
    \E stopped \in { rebaseExec(Current, rebase, base, branch) } :
      /\ stopped.status # 0
      /\ stopped.rebase = Current
      /\ stopped.st.commits # SubSeq(commits, 1, Len(stopped.st.commits))
      /\ GitRepository_reimport(Current, rebase, base, branch).status # 0
      /\ GitRepository_reimport(Current, rebase, base, branch).st = Current

(***************************************************************************)
(* deso.execute: one call of pipeline() or spring() in the parent          *)
(* process, the children it forks and the pipes between them.  Data moves  *)
(* in chunks of PIPE_BUF bytes (4096, which is also what _read asks for);  *)
(* a chunk is named after the child that wrote it, 0 for the parent.  A    *)
(* descriptor is a pair of a pipe and one of its ends; a pipe has a reader *)
(* (a writer) while the parent or a running child holds that end.          *)
(***************************************************************************)

\* The chunks a pipe holds before a write to it blocks.
PipeCap == 2

\* The status of a child killed by SIGPIPE: the negated signal number.
SIGPIPE == 13

\* A command: its argv, the chunks it writes to stderr and then to stdout,
\* whether it copies its stdin to its stdout after that, its exit status.
Cmd(argv, err, out, copy, status) ==
  [ argv |-> argv, err |-> err, out |-> out, copy |-> copy, status |-> status ]

TrueCmd == Cmd(<< "/bin/true" >>, 0, 0, FALSE, 0)

FalseCmd == Cmd(<< "/bin/false" >>, 0, 0, FALSE, 1)

ExitCmd == Cmd(<< "/bin/sh", "-c", "exit 42" >>, 0, 0, FALSE, 42)

EchoCmd == Cmd(<< "/bin/echo", "test" >>, 0, 1, FALSE, 0)

CatCmd == Cmd(<< "/bin/cat" >>, 0, 0, TRUE, 0)

\* cat of a file that does not exist: a message on stderr, status 1
CatMissing == Cmd(<< "/bin/cat", "missing" >>, 1, 0, FALSE, 1)

\* cat of a file larger than a pipe
CatBig == Cmd(<< "/bin/cat", "big" >>, 0, PipeCap + 1, FALSE, 0)

\* a command that writes more than a pipe holds to stderr
ErrBig == Cmd(<< "/bin/sh", "-c", "cat big >&2" >>, PipeCap + 1, 0, FALSE, 0)

\* a program that does not exist: execv raises FileNotFoundError in the
\* child, which goes on as a copy of the caller; the caller taken here does
\* not catch the exception, so that the interpreter of the child writes the
\* traceback to stderr and ends with status 1
MissingCmd == Cmd(<< "/no/such/program" >>, 1, 0, FALSE, 1)

\* execv raises instead of replacing the image of the child
execFails(command) == command.argv = MissingCmd.argv

PipeNames == { "stdin", "stdout", "stderr", "spring", "p1", "p2" }

\* the pipes _pipeline creates, in the order of their creation
InterPipes == << "p1", "p2" >>

Fd(pipe, end) == << pipe, end >>

NullFd == Fd("null", "rw")

\* every descriptor the parent opens in a call
AllFds == { NullFd } \cup { Fd(p, e) : p \in PipeNames, e \in { "r", "w" } }

ExecState(par_, procs_, pipes_) ==
  [ par |-> par_, procs |-> procs_, pipes |-> pipes_ ]

hasReader(s, p) ==
  \/ Fd(p, "r") \in s.par.open
  \/ \E c \in DOMAIN s.procs :
       /\ s.procs[c].state = "running"
       /\ (s.procs[c].stdin = p \/ Fd(p, "r") \in s.procs[c].open)

hasWriter(s, p) ==
  \/ Fd(p, "w") \in s.par.open
  \/ \E c \in DOMAIN s.procs :
       /\ s.procs[c].state = "running"
       /\ \/ s.procs[c].stdout = p
          \/ s.procs[c].stderr = p
          \/ Fd(p, "w") \in s.procs[c].open

\* transform of formatCommands for a command: " ".join
RECURSIVE formatCommand(_)
formatCommand(argv) ==
  IF Len(argv) = 1 THEN argv[1]
  ELSE argv[1] \o " " \o formatCommand(Tail(argv))

\* transform of formatCommands for the commands of a spring: "(%s)" % " + ".join
RECURSIVE plusJoin(_)
plusJoin(commands) ==
  IF Len(commands) = 1 THEN formatCommand(commands[1].argv)
  ELSE formatCommand(commands[1].argv) \o " + " \o plusJoin(Tail(commands))

\* formatCommands([commands[i]]) in _wait: commands is the pipeline, or the
\* spring, whose first element is the list of the commands of the spring
formatCommands(call_, i) ==
  IF call_.kind = "pipeline" THEN formatCommand(call_.commands[i].argv)
  ELSE IF i = 1 THEN "(" \o plusJoin(call_.heads) \o ")"
  ELSE formatCommand(call_.commands[i - 1].argv)

\* close_ of descriptors of the parent; closes counts the calls of close_
\* for a descriptor
closeFds(s, fds) ==
  [ s EXCEPT !.par.open = @ \ fds,
             !.par.closes = [ fd \in AllFds |->
                                IF fd \in fds THEN s.par.closes[fd] + 1
                                ELSE s.par.closes[fd] ] ]

\* pipe2, open_: the parent holds new descriptors
openFds(s, fds) == [ s EXCEPT !.par.open = @ \cup fds ]

\* the descriptors a child closed itself before _exec: the two pipes of
\* _pipeline around it, or the pipe of the spring
closedBeforeExec(fd_in, fd_out, head) ==
  { Fd(p, e) : p \in ({ fd_in, fd_out } \cap { "p1", "p2" })
                       \cup (IF head > 0 THEN { "spring" } ELSE {}),
               e \in { "r", "w" } }

\* fork, the dup2 calls of the child and _exec: the child runs the command
\* on the three descriptors; every other descriptor is closed on exec.  When
\* execv raises, the child keeps its copies of the descriptors of the
\* parent, and flow tells where the exception has taken it.
fork(s, command, fd_in, fd_out, fd_err, head) ==
  [ s EXCEPT !.procs = Append(@,
      [ argv |-> command.argv, err |-> command.err, out |-> command.out,
        copy |-> command.copy, status |-> command.status,
        stdin |-> fd_in, stdout |-> fd_out, stderr |-> fd_err,
        head |-> head, hold |-> << >>, state |-> "running", exit |-> 0,
        flow |-> IF execFails(command) THEN "raised" ELSE "exec",
        open |-> IF execFails(command)
                 THEN s.par.open \ closedBeforeExec(fd_in, fd_out, head)
                 ELSE {},
        here |-> IF execFails(command) THEN s.par.here ELSE {},
        later |-> IF execFails(command) THEN s.par.later ELSE {} ]) ]

\* fork fails (EAGAIN) from the call.forks-th fork of the call on
forkFails(s, call_) == Len(s.procs) >= call_.forks

\* The bytes a buffer passed for stdout (for stderr) holds when it is not
\* empty: a chunk of no child.
InitialData == [ stdout |-> << -1 >>, stderr |-> << -2 >> ]

\* data["data"] = argument in pipeRead: the buffer passed for the channel
buffer(call_, channel) ==
  IF call_[channel] /\ call_.initial THEN InitialData[channel] ELSE << >>

\* _PipelineFileDescriptors.__init__: /dev/null when a channel is None, a
\* pipe per channel that carries data; the descriptors to poll
PipelineFileDescriptors(s, call_) ==
  LET null == IF call_.stdin < 0 \/ ~ call_.stdout \/ ~ call_.stderr
              THEN { NullFd } ELSE {}
      pin == IF call_.stdin >= 0 THEN { "stdin" } ELSE {}
      pout == IF call_.stdout THEN { "stdout" } ELSE {}
      perr == IF call_.stderr THEN { "stderr" } ELSE {}
  IN  [ s EXCEPT !.par.open = null \cup { Fd(p, e) : p \in pin \cup pout \cup perr,
                                                      e \in { "r", "w" } },
                 \* here.defer(close_, ...) and later.defer(close_, ...)
                 !.par.here = null \cup { Fd(p, "r") : p \in pin }
                                   \cup { Fd(p, "w") : p \in pout \cup perr },
                 !.par.later = { Fd(p, "w") : p \in pin }
                                 \cup { Fd(p, "r") : p \in pout \cup perr },
                 !.par.polls = pin \cup pout \cup perr,
                 !.par.stdin_left = call_.stdin,
                 !.par.data = [ stdout |-> buffer(call_, "stdout"),
                                stderr |-> buffer(call_, "stderr") ] ]

\* fds.stdin(), fds.stdout(), fds.stderr()
fdsStdin(call_) == IF call_.stdin >= 0 THEN "stdin" ELSE "null"

fdsStdout(call_) == IF call_.stdout THEN "stdout" ELSE "null"

fdsStderr(call_) == IF call_.stderr THEN "stderr" ELSE "null"

\* the end of the block of the scope `here`: the functions registered
\* with it and not yet invoked run
leaveHere(s) == [ closeFds(s, s.par.here) EXCEPT !.par.here = {} ]

\* the end of the block of the scope `later`
leaveLater(s) == [ closeFds(s, s.par.later) EXCEPT !.par.later = {} ]

\* the descriptor poll_ has registered for a channel
pollFd(channel) ==
  IF channel = "stdin" THEN Fd("stdin", "w") ELSE Fd(channel, "r")

\* an early close that calls close_ itself and leaves the function of the
\* scope `later` as it is
closeEarlyDirectly(s, channel) ==
  [ closeFds(s, { pollFd(channel) }) EXCEPT !.par.polls = @ \ { channel } ]

\* data["close"](); data["unreg"](); del polls[fd]: the function registered
\* with `later` is invoked through its handle, which runs it unless it ran
\* before, and the descriptor is polled no more
closeEarly(s, channel) ==
  LET invoked == IF pollFd(channel) \in s.par.later
                 THEN [ closeFds(s, { pollFd(channel) })
                          EXCEPT !.par.later = @ \ { pollFd(channel) } ]
                 ELSE s
  IN  [ invoked EXCEPT !.par.polls = @ \ { channel } ]

\* an exception leaves pipeline() or spring() through both scopes
raise(s, error) ==
  [ leaveLater(leaveHere(s)) EXCEPT !.par.pc = "raised", !.par.err = error ]

\* _pipeline from its i-th command on; ok is FALSE when fork failed
RECURSIVE pipelineLoop(_, _, _, _, _, _, _, _)
pipelineLoop(s, call_, commands, i, fd_in, fd_out, fd_err, pids) ==
  LET is_last == i = Len(commands)
      old == IF i = 1 THEN {}
             ELSE { Fd(InterPipes[i - 1], "r"), Fd(InterPipes[i - 1], "w") }
      forked(piped) ==
        IF forkFails(piped, call_)
        THEN [ s |-> piped, pids |-> pids, ok |-> FALSE ]
        ELSE pipelineLoop(
               closeFds(fork(piped, commands[i],
                             IF i = 1 THEN fd_in ELSE InterPipes[i - 1],
                             IF is_last THEN fd_out ELSE InterPipes[i],
                             fd_err, 0),
                        old),
               call_, commands, i + 1, fd_in, fd_out, fd_err,
               Append(pids, Len(piped.procs) + 1))
  IN  IF i > Len(commands) THEN [ s |-> s, pids |-> pids, ok |-> TRUE ]
      ELSE forked(IF is_last THEN s
                  ELSE openFds(s, { Fd(InterPipes[i], "r"),
                                    Fd(InterPipes[i], "w") }))

\* a poll loop that treats POLLIN with POLLHUP like POLLIN: one _read, and
\* the descriptor is closed for the POLLHUP
pollReadOnce(s, channel) ==
  LET hup == ~ hasWriter(s, channel)
      closed(t) == closeEarly(t, channel)
  IN  IF channel \notin s.par.polls THEN s
      ELSE IF s.pipes[channel] # << >> /\ hup
      THEN closed([ s EXCEPT !.par.data[channel] = Append(@, Head(s.pipes[channel])),
                             !.par.flushed[channel] = Len(s.pipes[channel]),
                             !.pipes[channel] = Tail(@) ])
      ELSE IF s.pipes[channel] # << >>
      THEN [ s EXCEPT !.par.data[channel] = Append(@, Head(s.pipes[channel])),
                      !.pipes[channel] = Tail(@) ]
      ELSE IF hup THEN closed(s)
      ELSE s

\* _write and _read behind the events of one poll_.poll() for a channel that
\* is read: POLLIN reads a chunk, POLLIN with POLLHUP reads all there is,
\* POLLHUP, with or without data, closes the descriptor and ends its polling;
\* flushed notes the chunks a pipe held when POLLIN came with POLLHUP
pollRead(s, channel) ==
  LET hup == ~ hasWriter(s, channel)
      closed(t) == closeEarly(t, channel)
  IN  IF channel \notin s.par.polls THEN s
      ELSE IF s.pipes[channel] # << >> /\ hup
      THEN closed([ s EXCEPT !.par.data[channel] = @ \o s.pipes[channel],
                             !.par.flushed[channel] = Len(s.pipes[channel]),
                             !.pipes[channel] = << >> ])
      ELSE IF s.pipes[channel] # << >>
      THEN [ s EXCEPT !.par.data[channel] = Append(@, Head(s.pipes[channel])),
                      !.pipes[channel] = Tail(@) ]
      ELSE IF hup THEN closed(s)
      ELSE s

\* a _write that hands all the data left to one write(): the write blocks
\* while the pipe lacks the room for all of it
pollWriteUnchunked(s) ==
  LET closed(t) == closeEarly(t, "stdin")
  IN  IF "stdin" \notin s.par.polls THEN s
      ELSE IF ~ hasReader(s, "stdin")
      THEN [ s EXCEPT !.par.err = "ConnectionError" ]
      ELSE IF Len(s.pipes["stdin"]) >= PipeCap THEN s
      ELSE IF s.par.stdin_left = 0 THEN closed(s)
      ELSE IF Len(s.pipes["stdin"]) + s.par.stdin_left > PipeCap THEN s
      ELSE closed([ s EXCEPT !.par.stdin_left = 0,
                             !.pipes["stdin"] =
                                @ \o [ j \in 1 .. s.par.stdin_left |-> 0 ] ])

\* the events for stdin: POLLERR without a reader (the write fails with
\* EPIPE, or ConnectionError is raised), POLLOUT writes a chunk and closes
\* the descriptor when no data is left
pollWrite(s) ==
  LET closed(t) == closeEarly(t, "stdin")
  IN  IF "stdin" \notin s.par.polls THEN s
      ELSE IF ~ hasReader(s, "stdin")
      THEN [ s EXCEPT !.par.err = "ConnectionError" ]
      ELSE IF Len(s.pipes["stdin"]) >= PipeCap THEN s
      ELSE IF s.par.stdin_left = 0 THEN closed(s)
      ELSE IF s.par.stdin_left = 1
      THEN closed([ s EXCEPT !.par.stdin_left = 0,
                             !.pipes["stdin"] = Append(@, 0) ])
      ELSE [ s EXCEPT !.par.stdin_left = @ - 1,
                      !.pipes["stdin"] = Append(@, 0) ]

\* one round of the loop of _PipelineFileDescriptors.poll: the events of
\* stdin, stdout and stderr in the order of their registration
pollRound(s) ==
  LET read(t) ==
        IF t.par.err # "none" THEN t
        ELSE pollRead(pollRead(t, "stdout"), "stderr")
  IN  read(pollWrite(s))

\* the end of _wait: ProcessError for the status remembered
waited(s) ==
  IF s.par.status # 0
  THEN [ s EXCEPT !.par.pc = "raised", !.par.err = "ProcessError" ]
  ELSE [ s EXCEPT !.par.pc = "returned" ]

\* the polling is over: the scope `later` ends and _wait begins
polled(s) ==
  LET begin(t) == IF t.par.pids = << >> THEN waited(t)
                  ELSE [ t EXCEPT !.par.pc = "wait", !.par.k = 1 ]
  IN  begin(leaveLater(s))

\* for _ in fds.poll(): polling that blocks, until no descriptor is left
poll(s) ==
  IF s.par.polls = {} THEN polled(s) ELSE [ s EXCEPT !.par.pc = "poll" ]

\* pipeline() up to its polling
pipeline(s, call_) ==
  LET forked(result) ==
        IF ~ result.ok THEN raise(result.s, "OSError")
        ELSE poll(leaveHere([ result.s EXCEPT !.par.pids = result.pids ]))
  IN  forked(pipelineLoop(PipelineFileDescriptors(s, call_), call_,
                          call_.commands, 1, fdsStdin(call_),
                          fdsStdout(call_), fdsStderr(call_), << >>))

\* _spring after its loop and spring() up to its polling that blocks
sprung(s, call_) ==
  LET closed == IF call_.commands = << >> THEN s
                ELSE closeFds(s, { Fd("spring", "r"), Fd("spring", "w") })
  IN  poll(leaveHere(closed))

\* the fork of the i-th command of the spring; ok is FALSE when it failed
springFork(s, call_, i) ==
  IF forkFails(s, call_) THEN [ s |-> s, ok |-> FALSE ]
  ELSE [ s |-> [ fork(s, call_.heads[i], "null",
                      IF call_.commands = << >> THEN fdsStdout(call_)
                      ELSE "spring",
                      fdsStderr(call_), i)
                 EXCEPT !.par.i = i, !.par.head = Len(s.procs) + 1 ],
         ok |-> TRUE ]

\* pids[-pipe_len:-pipe_len] = [pid]
lastHead(s) == [ s EXCEPT !.par.pids = << s.par.head >> \o @ ]

\* spring() and _spring up to the waitpid of its first command: the
\* descriptors, the pipe to the pipeline, the first fork, the pipeline
spring(s, call_) ==
  LET piped(t) == IF call_.commands = << >> THEN t
                  ELSE openFds(t, { Fd("spring", "r"), Fd("spring", "w") })
      tailed(result) ==
        IF ~ result.ok THEN raise(result.s, "OSError")
        ELSE IF Len(call_.heads) = 1
        THEN sprung(lastHead([ result.s EXCEPT !.par.pids = result.pids ]), call_)
        ELSE [ result.s EXCEPT !.par.pids = result.pids, !.par.pc = "waithead" ]
      headed(result) ==
        IF ~ result.ok THEN raise(result.s, "OSError")
        ELSE tailed(pipelineLoop(result.s, call_, call_.commands, 1, "spring",
                                 fdsStdout(call_), fdsStderr(call_), << >>))
  IN  headed(springFork(piped(PipelineFileDescriptors(s, call_)), call_, 1))

\* _waitpid of a child that has exited
waitpid(s, pid) == [ s EXCEPT !.procs[pid].state = "reaped" ]

\* a _spring that forks the next command without waiting for the current
springNotWaited(s, call_) ==
  LET forked(result) ==
        IF ~ result.ok THEN raise(result.s, "OSError")
        ELSE [ result.s EXCEPT !.par.pc = "pollonce" ]
  IN  forked(springFork(s, call_, s.par.i + 1))

\* status = _waitpid(pid) in _spring for a command that is not the last:
\* a failure ends the loop, otherwise the next command is forked
springWaited(s, call_) ==
  LET forked(result) ==
        IF ~ result.ok THEN raise(result.s, "OSError")
        ELSE [ result.s EXCEPT !.par.pc = "pollonce" ]
      status == s.procs[s.par.head].exit
  IN  IF status # 0
      THEN sprung([ waitpid(s, s.par.head) EXCEPT
                      !.par.status = status,
                      !.par.failed = formatCommand(call_.heads[s.par.i].argv) ],
                  call_)
      ELSE forked(springFork(waitpid(s, s.par.head), call_, s.par.i + 1))

\* pollData(poller) in _spring: one round of polling that does not block
pollData(s, call_) ==
  LET polled_(t) ==
        IF s.par.i = Len(call_.heads) THEN sprung(lastHead(t), call_)
        ELSE [ t EXCEPT !.par.pc = "waithead" ]
  IN  polled_(pollRound(s))

\* a _wait that remembers the last failure
waitLast(s, call_) ==
  LET pid == s.par.pids[s.par.k]
      this_status == s.procs[pid].exit
      next(t) == IF s.par.k = Len(s.par.pids) THEN waited(t)
                 ELSE [ t EXCEPT !.par.k = @ + 1 ]
  IN  next(IF this_status # 0
           THEN [ waitpid(s, pid) EXCEPT
                    !.par.status = this_status,
                    !.par.failed = formatCommands(call_, s.par.k) ]
           ELSE waitpid(s, pid))

\* a _wait that raises at the first failure
waitUntilFailure(s, call_) ==
  LET pid == s.par.pids[s.par.k]
      this_status == s.procs[pid].exit
      next(t) == IF s.par.k = Len(s.par.pids) THEN waited(t)
                 ELSE [ t EXCEPT !.par.k = @ + 1 ]
  IN  IF this_status # 0 /\ s.par.status = 0
      THEN waited([ waitpid(s, pid) EXCEPT
                      !.par.status = this_status,
                      !.par.failed = formatCommands(call_, s.par.k) ])
      ELSE next(waitpid(s, pid))

\* _wait: one turn of its loop, for the k-th pid, and its end after the last
wait(s, call_) ==
  LET pid == s.par.pids[s.par.k]
      this_status == s.procs[pid].exit
      next(t) == IF s.par.k = Len(s.par.pids) THEN waited(t)
                 ELSE [ t EXCEPT !.par.k = @ + 1 ]
  IN  next(IF this_status # 0 /\ s.par.status = 0
           THEN [ waitpid(s, pid) EXCEPT
                    !.par.status = this_status,
                    !.par.failed = formatCommands(call_, s.par.k) ]
           ELSE waitpid(s, pid))

\* the parent before the call
Parent ==
  [ pc |-> "start", open |-> {}, here |-> {}, later |-> {},
    closes |-> [ fd \in AllFds |-> 0 ], polls |-> {}, stdin_left |-> 0,
    data |-> [ stdout |-> << >>, stderr |-> << >> ],
    flushed |-> [ stdout |-> 0, stderr |-> 0 ],
    pids |-> << >>, k |-> 0, i |-> 0, head |-> 0,
    status |-> 0, failed |-> "", err |-> "none" ]

\* The calls tried.  forks is the number of forks that succeed; stdin is
\* the number of chunks of data for stdin, -1 for None; stdout and stderr
\* tell whether the channel is read into a buffer or None, and initial
\* whether the buffers passed hold data already.
NoLimit == 9

Pipelines ==
  { << TrueCmd >>, << EchoCmd >>, << CatBig >>, << CatCmd >>, << CatMissing >>,
    << EchoCmd, CatCmd >>, << CatBig, CatCmd >>, << CatBig, TrueCmd >>,
    << ExitCmd, FalseCmd >>, << FalseCmd, ExitCmd >>,
    << EchoCmd, CatMissing, FalseCmd >>, << EchoCmd, CatMissing, TrueCmd >>,
    << TrueCmd, ExitCmd, TrueCmd >>, << CatCmd, CatCmd >>, << ErrBig >> }

Springs ==
  { << << EchoCmd >>, << >> >>,
    << << EchoCmd, EchoCmd >>, << >> >>,
    << << EchoCmd, EchoCmd, EchoCmd >>, << >> >>,
    << << EchoCmd, CatBig >>, << >> >>,
    << << CatBig, EchoCmd >>, << >> >>,
    << << ErrBig, EchoCmd >>, << >> >>,
    << << FalseCmd, EchoCmd >>, << >> >>,
    << << EchoCmd, ExitCmd >>, << >> >>,
    << << EchoCmd, EchoCmd >>, << CatCmd >> >>,
    << << CatBig, EchoCmd >>, << CatCmd >> >>,
    << << EchoCmd, FalseCmd, EchoCmd >>, << CatCmd >> >>,
    << << EchoCmd, EchoCmd >>, << CatCmd, FalseCmd >> >>,
    << << EchoCmd >>, << CatCmd, FalseCmd >> >>,
    << << CatMissing, EchoCmd >>, << ExitCmd >> >> }

Calls ==
  { [ kind |-> "pipeline", heads |-> << >>, commands |-> c, stdin |-> i,
      stdout |-> o, stderr |-> e, initial |-> b, forks |-> f ] :
      c \in Pipelines, i \in { -1, 0, PipeCap + 1 }, o \in BOOLEAN,
      e \in BOOLEAN, b \in BOOLEAN, f \in { 0, 1, NoLimit } }
  \cup
  { [ kind |-> "spring", heads |-> c[1], commands |-> c[2], stdin |-> -1,
      stdout |-> o, stderr |-> e, initial |-> b, forks |-> f ] :
      c \in Springs, o \in BOOLEAN, e \in BOOLEAN, b \in BOOLEAN,
      f \in { 1, 2, NoLimit } }

Exec == ExecState(par, procs, pipes)

InitExec ==
  /\ call \in Calls
  /\ par = Parent
  /\ procs = << >>
  /\ pipes = [ p \in PipeNames |-> << >> ]
  /\ commits = << >>
  /\ index = EmptyTree
  /\ worktree = EmptyTree
  /\ rebase = None
  /\ last = Command("init", None, None, None, FALSE, None,
                    Repo(<< >>, EmptyTree, EmptyTree), 0, "none")
  /\ handles = << >> /\ functions = << >> /\ ran = << >> /\ scope = None
  /\ input = None /\ output = None

\* pipeline(commands, env, stdin, stdout, stderr), up to its polling
PipelineStart ==
  /\ call.kind = "pipeline"
  /\ par.pc = "start"
  /\ \E result \in { pipeline(Exec, call) } :
       /\ par' = result.par
       /\ procs' = result.procs
       /\ pipes' = result.pipes
  /\ UNCHANGED << call, gitVars, deferVars, funVars >>

\* spring(commands, env, stdout, stderr), up to the first waitpid
SpringStart ==
  /\ call.kind = "spring"
  /\ par.pc = "start"
  /\ \E result \in { spring(Exec, call) } :
       /\ par' = result.par
       /\ procs' = result.procs
       /\ pipes' = result.pipes
  /\ UNCHANGED << call, gitVars, deferVars, funVars >>

\* _spring: the waitpid of a command that is not the last returns
SpringWaitHead ==
  /\ par.pc = "waithead"
  /\ procs[par.head].state = "zombie"
  /\ \E result \in { springWaited(Exec, call) } :
       /\ par' = result.par
       /\ procs' = result.procs
       /\ pipes' = result.pipes
  /\ UNCHANGED << call, gitVars, deferVars, funVars >>

\* _spring: the polling after the fork of a further command
SpringPollOnce ==
  /\ par.pc = "pollonce"
  /\ \E result \in { pollData(Exec, call) } :
       /\ par' = result.par
       /\ procs' = result.procs
       /\ pipes' = result.pipes
  /\ UNCHANGED << call, gitVars, deferVars, funVars >>

\* poll_.poll(None) returns with events, and they are handled
Poll ==
  /\ par.pc = "poll"
  /\ \E result \in { pollRound(Exec) } :
       /\ result # Exec
       /\ \E after \in { IF result.par.err # "none"
                         THEN raise(result, result.par.err)
                         ELSE poll(result) } :
            /\ par' = after.par
            /\ procs' = after.procs
            /\ pipes' = after.pipes
  /\ UNCHANGED << call, gitVars, deferVars, funVars >>

\* _wait: the waitpid of the next pid returns
Wait ==
  /\ par.pc = "wait"
  /\ procs[par.pids[par.k]].state = "zombie"
  /\ \E result \in { wait(Exec, call) } :
       /\ par' = result.par
       /\ procs' = result.procs
       /\ pipes' = result.pipes
  /\ UNCHANGED << call, gitVars, deferVars, funVars >>

\* the chunk a child writes next and the descriptor it goes to
writing(child, c) ==
  IF child.err > 0 THEN [ fd |-> child.stderr, chunk |-> c ]
  ELSE IF child.out > 0 THEN [ fd |-> child.stdout, chunk |-> c ]
  ELSE [ fd |-> child.stdout, chunk |-> child.hold[1] ]

written(child) ==
  IF child.err > 0 THEN [ child EXCEPT !.err = @ - 1 ]
  ELSE IF child.out > 0 THEN [ child EXCEPT !.out = @ - 1 ]
  ELSE [ child EXCEPT !.hold = << >> ]

\* A child writes a chunk: to /dev/null, or to a pipe with room; the write
\* to a pipe without a reader kills it with SIGPIPE.
ChildWrite ==
  \E c \in DOMAIN procs :
    /\ procs[c].state = "running"
    /\ procs[c].flow \in { "exec", "escaped" }
    /\ procs[c].err > 0 \/ procs[c].out > 0 \/ procs[c].hold # << >>
    /\ \E w \in { writing(procs[c], c) } :
         \/ /\ w.fd = "null"
            /\ procs' = [ procs EXCEPT ![c] = written(@) ]
            /\ pipes' = pipes
         \/ /\ w.fd # "null"
            /\ ~ hasReader(Exec, w.fd)
            /\ procs' = [ procs EXCEPT ![c].state = "zombie",
                                       ![c].exit = -SIGPIPE ]
            /\ pipes' = pipes
         \/ /\ w.fd # "null"
            /\ hasReader(Exec, w.fd)
            /\ Len(pipes[w.fd]) < PipeCap
            /\ procs' = [ procs EXCEPT ![c] = written(@) ]
            /\ pipes' = [ pipes EXCEPT ![w.fd] = Append(@, w.chunk) ]
    /\ UNCHANGED << call, par, gitVars, deferVars, funVars >>

\* A child that copies reads a chunk of its stdin, or exits at its end.
ChildRead ==
  \E c \in DOMAIN procs :
    /\ procs[c].state = "running"
    /\ procs[c].flow \in { "exec", "escaped" }
    /\ procs[c].copy
    /\ procs[c].err = 0 /\ procs[c].out = 0 /\ procs[c].hold = << >>
    /\ \/ /\ procs[c].stdin # "null"
          /\ pipes[procs[c].stdin] # << >>
          /\ procs' = [ procs EXCEPT ![c].hold = << Head(pipes[procs[c].stdin]) >> ]
          /\ pipes' = [ pipes EXCEPT ![procs[c].stdin] = Tail(@) ]
       \/ /\ \/ procs[c].stdin = "null"
             \/ /\ procs[c].stdin # "null"
                /\ pipes[procs[c].stdin] = << >>
                /\ ~ hasWriter(Exec, procs[c].stdin)
          /\ procs' = [ procs EXCEPT ![c].state = "zombie",
                                     ![c].exit = procs[c].status ]
          /\ pipes' = pipes
    /\ UNCHANGED << call, par, gitVars, deferVars, funVars >>

\* A child that does not copy exits after its last write.
ChildExit ==
  \E c \in DOMAIN procs :
    /\ procs[c].state = "running"
    /\ procs[c].flow \in { "exec", "escaped" }
    /\ ~ procs[c].copy
    /\ procs[c].err = 0 /\ procs[c].out = 0
    /\ procs' = [ procs EXCEPT ![c].state = "zombie",
                               ![c].exit = procs[c].status ]
    /\ UNCHANGED << call, par, pipes, gitVars, deferVars, funVars >>

NextExec ==
  \/ PipelineStart
  \/ SpringStart
  \/ SpringWaitHead
  \/ SpringPollOnce
  \/ Poll
  \/ Wait
  \/ ChildWrite
  \/ ChildRead
  \/ ChildExit

SpecExec == InitExec /\ [][NextExec]_vars

\* the kernel runs what can run: a child that can write, read or exit does
\* so, and a system call of the parent that can return does
SpecExecFair == SpecExec /\ WF_vars(NextExec)


(***************************************************************************)
(* Properties of pipeline() and spring()                                   *)
(***************************************************************************)

\* pipeline() or spring() has returned or raised
Done == par.pc \in { "returned", "raised" }

\* the call raised ProcessError
ProcessFailure == par.pc = "raised" /\ par.err = "ProcessError"

\* the children that exited non-zero or were killed by a signal
failures ==
  { c \in DOMAIN procs : procs[c].state # "running" /\ procs[c].exit # 0 }

\* the status and the command reported are those of the first command of
\* the pipeline, in its order, that failed
firstFailureReported ==
  \E c \in failures :
    /\ \A d \in failures : c <= d
    /\ par.status = procs[c].exit
    /\ par.failed = formatCommand(call.commands[c].argv)

\* C15 as stated: when one or more commands of a pipeline exit non-zero,
\* pipeline() raises ProcessError with the status and the command string of
\* the first failing command in pipeline order (every fork succeeding).
C15_FailureRaisesFirst ==
  (call.kind = "pipeline" /\ call.forks = NoLimit /\ Done /\ failures # {})
    => (ProcessFailure /\ firstFailureReported)

\* C15 amended: a pipeline() that got to wait for its children (its forks
\* succeeded and its polling raised no error) returns when no command
\* failed, and otherwise raises ProcessError with the status and the
\* command string of the first failing command in pipeline order.
C15_FirstFailureReported ==
  (call.kind = "pipeline" /\ Done /\ par.err \in { "none", "ProcessError" })
    => IF failures = {} THEN par.pc = "returned"
       ELSE ProcessFailure /\ firstFailureReported

\* two commands failed with different statuses
C15_Witness ==
  /\ call.kind = "pipeline"
  /\ ProcessFailure
  /\ \E c, d \in failures : c < d /\ procs[c].exit # procs[d].exit

\* C16: when pipeline() or spring() raises ProcessError, every child it
\* forked has been waited for: none is running and none is a zombie.
C16_AllReaped ==
  ProcessFailure => \A c \in DOMAIN procs : procs[c].state = "reaped"

\* a child forked after the one that failed was waited for
C16_Witness ==
  /\ ProcessFailure
  /\ \E c \in failures : \E d \in DOMAIN procs :
       c < d /\ procs[d].state = "reaped"

\* the children that run the commands of the spring before its pipeline
heads == { c \in DOMAIN procs : procs[c].head > 0 }

\* the chunks are in the order of the commands of the spring
inHeadOrder(data) ==
  \A j, k \in { n \in DOMAIN data : data[n] \in DOMAIN procs } :
    j < k => procs[data[j]].head <= procs[data[k]].head

\* C17: in a spring a command is forked only after the command before it
\* was waited for, at most one of these commands runs at a time, and the
\* data passed on and read is the output of the commands in their order:
\* all of it once a spring whose pipeline copies has returned.
C17_HeadsSerial ==
  call.kind = "spring" =>
    /\ \A c, d \in heads :
         procs[c].head < procs[d].head => procs[c].state = "reaped"
    /\ Cardinality({ c \in heads : procs[c].state # "reaped" }) <= 1
    /\ inHeadOrder(pipes["spring"])
    /\ inHeadOrder(par.data.stdout)
    /\ (par.pc = "returned" /\ call.stdout
        /\ \A t \in DOMAIN call.commands : call.commands[t].copy)
         => \A c \in heads :
              Cardinality({ j \in DOMAIN par.data.stdout :
                              par.data.stdout[j] = c })
                = call.heads[procs[c].head].out

\* a spring returned the output of two of its commands
C17_Witness ==
  /\ call.kind = "spring"
  /\ par.pc = "returned"
  /\ Len(par.data.stdout) >= 3
  /\ \E j, k \in { n \in DOMAIN par.data.stdout :
                      par.data.stdout[n] \in DOMAIN procs } :
       j < k /\ procs[par.data.stdout[j]].head < procs[par.data.stdout[k]].head

\* C18: a spring never deadlocks: spring() eventually returns or raises,
\* whatever the volume of output of its commands.
C18_SpringReturns == (call.kind = "spring") ~> Done

\* C19: when pipeline() or spring() has returned or raised, the parent
\* holds none of the descriptors the call opened.
C19_DescriptorsClosed == Done => par.open = {}

(***************************************************************************)
(* deso.cleanup: one defer() scope, the _Function objects it handed out    *)
(* and the functions that ran.  A function either returns or raises; the   *)
(* body of the with block registers, invokes and releases functions,       *)
(* destroys the scope, and is left normally or by an exception.            *)
(***************************************************************************)

\* The functions a body defers.
MaxFunctions == 3

\* The invocations of functions followed.
MaxRuns == 4

DeferState(handles_, functions_, ran_) ==
  [ handles |-> handles_, functions |-> functions_, ran |-> ran_ ]

\* _Defer.defer: a new _Function, appended to _functions
defer(st, raises) ==
  [ st EXCEPT !.handles = Append(@, [ raises |-> raises, function |-> TRUE ]),
              !.functions = Append(@, Len(st.handles) + 1) ]

\* a _Function.__call__ that marks the function as executed before it runs
Function_callMarked(st, h, at) ==
  IF ~ st.handles[h].function THEN [ st |-> st, ok |-> TRUE ]
  ELSE [ st |-> [ st EXCEPT !.ran = Append(@, [ handle |-> h, at |-> at ]),
                            !.handles[h].function = FALSE ],
         ok |-> ~ st.handles[h].raises ]

\* a _Function.__call__ that does not look at what release() left
Function_callReleased(st, h, at) ==
  IF st.handles[h].raises
  THEN [ st |-> [ st EXCEPT !.ran = Append(@, [ handle |-> h, at |-> at ]) ],
         ok |-> FALSE ]
  ELSE [ st |-> [ st EXCEPT !.ran = Append(@, [ handle |-> h, at |-> at ]),
                            !.handles[h].function = FALSE ],
         ok |-> TRUE ]

\* _Function.__call__: the function runs when it is not None, and is set to
\* None after it returned; ok is FALSE when it raised
Function_call(st, h, at) ==
  IF ~ st.handles[h].function THEN [ st |-> st, ok |-> TRUE ]
  ELSE IF st.handles[h].raises
  THEN [ st |-> [ st EXCEPT !.ran = Append(@, [ handle |-> h, at |-> at ]) ],
         ok |-> FALSE ]
  ELSE [ st |-> [ st EXCEPT !.ran = Append(@, [ handle |-> h, at |-> at ]),
                            !.handles[h].function = FALSE ],
         ok |-> TRUE ]

\* _Function.release
Function_release(st, h) == [ st EXCEPT !.handles[h].function = FALSE ]

\* _Defer.release
release(st) == [ st EXCEPT !.functions = << >> ]

\* a destroy that invokes in the order of registration
RECURSIVE destroyForward(_, _, _)
destroyForward(st, i, at) ==
  LET next(result) ==
        IF ~ result.ok THEN result
        ELSE destroyForward(result.st, i - 1, at)
  IN  IF i = 0 THEN [ st |-> st, ok |-> TRUE ]
      ELSE next(Function_call(st, st.functions[Len(st.functions) + 1 - i], at))

\* _Defer.destroy from the i-th function of _functions down to the first:
\* the loop ends with the first function that raises
RECURSIVE destroy(_, _, _)
destroy(st, i, at) ==
  LET next(result) ==
        IF ~ result.ok THEN result
        ELSE destroy(result.st, i - 1, at)
  IN  IF i = 0 THEN [ st |-> st, ok |-> TRUE ]
      ELSE next(Function_call(st, st.functions[i], at))

\* the functions that wait for the end of the scope, in the order of their
\* registration: registered, not released, not invoked
pending(st) ==
  LET waits(h) ==
        /\ st.handles[h].function
        /\ \A r \in DOMAIN st.ran : st.ran[r].handle # h
  IN  SelectSeq(st.functions, waits)

\* the scope in the body of its with block
Scope ==
  [ pc |-> "body", raised |-> "none", error |-> "none", pending |-> << >> ]

\* _Defer.__exit__ when the body is left by `raised`: what was pending, and
\* the exception that leaves the with statement
exit(st, raised) ==
  LET left(result) ==
        [ st |-> result.st,
          scope |-> [ pc |-> "left", raised |-> raised,
                      error |-> IF result.ok THEN raised ELSE "exit",
                      pending |-> pending(st) ] ]
  IN  left(destroy(st, Len(st.functions), "exit"))

Deferred == DeferState(handles, functions, ran)

InitDefer ==
  /\ handles = << >>
  /\ functions = << >>
  /\ ran = << >>
  /\ scope = Scope
  /\ commits = << >>
  /\ index = EmptyTree
  /\ worktree = EmptyTree
  /\ rebase = None
  /\ last = Command("init", None, None, None, FALSE, None,
                    Repo(<< >>, EmptyTree, EmptyTree), 0, "none")
  /\ call = None /\ par = None /\ procs = << >> /\ pipes = << >>
  /\ input = None /\ output = None

\* d.defer(function) in the body
Defer ==
  /\ scope.pc = "body"
  /\ Len(handles) < MaxFunctions
  /\ \E raises \in BOOLEAN :
       \E result \in { defer(Deferred, raises) } :
         /\ handles' = result.handles
         /\ functions' = result.functions
  /\ UNCHANGED << ran, scope, gitVars, execVars, funVars >>

\* handle(): in the body an exception of the function leaves the body
Call ==
  /\ Len(ran) < MaxRuns
  /\ \E h \in DOMAIN handles :
       \E result \in { Function_call(Deferred, h,
                                     IF scope.pc = "body" THEN "call"
                                     ELSE "after") } :
         \E after \in { IF result.ok \/ scope.pc = "left"
                        THEN [ st |-> result.st, scope |-> scope ]
                        ELSE exit(result.st, "call") } :
           /\ handles' = after.st.handles
           /\ ran' = after.st.ran
           /\ scope' = after.scope
  /\ UNCHANGED << functions, gitVars, execVars, funVars >>

\* handle.release()
Release ==
  /\ \E h \in DOMAIN handles :
       /\ handles[h].function
       /\ handles' = Function_release(Deferred, h).handles
  /\ UNCHANGED << functions, ran, scope, gitVars, execVars, funVars >>

\* d.release() in the body
ReleaseAll ==
  /\ scope.pc = "body"
  /\ functions # << >>
  /\ functions' = release(Deferred).functions
  /\ UNCHANGED << handles, ran, scope, gitVars, execVars, funVars >>

\* d.destroy() in the body: an exception of a function leaves the body
Destroy ==
  /\ scope.pc = "body"
  /\ functions # << >>
  /\ \E result \in { destroy(Deferred, Len(functions), "destroy") } :
       \E after \in { IF result.ok
                      THEN [ st |-> result.st, scope |-> scope ]
                      ELSE exit(result.st, "call") } :
         /\ handles' = after.st.handles
         /\ ran' = after.st.ran
         /\ scope' = after.scope
  /\ UNCHANGED << functions, gitVars, execVars, funVars >>

\* the body ends
Leave ==
  /\ scope.pc = "body"
  /\ \E after \in { exit(Deferred, "none") } :
       /\ handles' = after.st.handles
       /\ ran' = after.st.ran
       /\ scope' = after.scope
  /\ UNCHANGED << functions, gitVars, execVars, funVars >>

\* the body raises
Raise ==
  /\ scope.pc = "body"
  /\ \E after \in { exit(Deferred, "body") } :
       /\ handles' = after.st.handles
       /\ ran' = after.st.ran
       /\ scope' = after.scope
  /\ UNCHANGED << functions, gitVars, execVars, funVars >>

NextDefer ==
  \/ Defer
  \/ Call
  \/ Release
  \/ ReleaseAll
  \/ Destroy
  \/ Leave
  \/ Raise

SpecDefer == InitDefer /\ [][NextDefer]_vars

(***************************************************************************)
(* Properties of defer()                                                   *)
(***************************************************************************)

\* the handles of the functions that ran at `at`, in the order they ran
ranAt(at) ==
  LET then(r) == r.at = at
      at_ == SelectSeq(ran, then)
  IN  [ r \in DOMAIN at_ |-> at_[r].handle ]

Reverse(seq) == [ j \in DOMAIN seq |-> seq[Len(seq) + 1 - j] ]

\* C20: in the body no function runs that was not invoked; when the scope is
\* left, normally or by an exception of the body, the functions registered
\* and neither released nor invoked have run once each, in the reverse
\* order of their registration, and what the body raised is what leaves the
\* with statement.
C20_PendingRunOnExit ==
  /\ scope.pc = "body" => ranAt("exit") = << >>
  /\ scope.pc = "left" =>
       /\ ranAt("exit") = Reverse(scope.pending)
       /\ scope.error = scope.raised

\* C21: a deferred function that raises while the scope is destroyed on
\* its exit does not make an exception leave the destructor, and the
\* functions that were pending still run.
C21_FailureContained ==
  scope.pc = "left" =>
    /\ scope.error # "exit"
    /\ \A p \in DOMAIN scope.pending :
         \E r \in DOMAIN ran :
           ran[r].handle = scope.pending[p] /\ ran[r].at = "exit"

(***************************************************************************)
(* Functions of the program applied alone: the argument is drawn from a    *)
(* bounded set, the one step applies the function to it.                   *)
(***************************************************************************)

\* the repository, the executor and the defer scope are not in use
Unused ==
  /\ commits = << >>
  /\ index = EmptyTree
  /\ worktree = EmptyTree
  /\ rebase = None
  /\ last = Command("init", None, None, None, FALSE, None,
                    Repo(<< >>, EmptyTree, EmptyTree), 0, "none")
  /\ call = None /\ par = None /\ procs = << >> /\ pipes = << >>
  /\ handles = << >> /\ functions = << >> /\ ran = << >> /\ scope = None

\* The paths a set passed to removeSubsumedFiles is made of.
SubsumePaths ==
  { << "a" >>, << "a", sep >>, << "a", "b" >>, << "a", "-", "b" >>,
    << "a", ".", "t" >>, << "a", sep, "x" >>, << "a", sep, "b" >>,
    << "a", sep, "b", "c" >>, << "a", sep, "b", sep, "c" >>, << "b" >> }

\* The paths in a set passed to removeSubsumedFiles.
MaxPaths == 3

InitSubsume ==
  /\ input \in { S \in SUBSET SubsumePaths :
                   Cardinality(S) >= 1 /\ Cardinality(S) <= MaxPaths }
  /\ output = None
  /\ Unused

\* GitImporter.removeSubsumedFiles(files)
RemoveSubsumed ==
  /\ output = None
  /\ output' = removeSubsumedFiles(input)
  /\ UNCHANGED << input, gitVars, execVars, deferVars >>

NextSubsume == RemoveSubsumed

SpecSubsume == InitSubsume /\ [][NextSubsume]_vars

\* the path without its trailing separators
RECURSIVE rstrip(_)
rstrip(path) ==
  IF path # << >> /\ path[Len(path)] = sep
  THEN rstrip(SubSeq(path, 1, Len(path) - 1))
  ELSE path

\* dir is a proper ancestor directory of path, by path components
isAncestor(dir, path) ==
  LET above(d, p) == Len(d) < Len(p) /\ SubSeq(p, 1, Len(d)) = d
  IN  above(SplitPath(rstrip(dir)), SplitPath(rstrip(path)))

\* C22: removeSubsumedFiles(S) is, as a set and ignoring trailing
\* separators, the set of the paths of S that have no proper ancestor
\* directory in S.
C22_ExactlyUnsubsumed ==
  output # None =>
    { rstrip(output[i]) : i \in DOMAIN output }
      = { rstrip(p) : p \in { q \in input :
                                \A d \in input : ~ isAncestor(d, q) } }

(***************************************************************************)
(* C23                                                                     *)
(***************************************************************************)

\* the imports visible from the commit the last command named
visibleImports == searchImportedSubreposFlat(LogOf(lastSha))

\* the record of an identity visible in the remote repository, with the
\* prefix of the import put before the prefix recorded there
composedRecord(subrepo, sha1) ==
  ImportLit \o trail(normpath(join(lastSubrepo.prefix, subrepo.prefix)))
    \o << ":" >> \o subrepo.repo \o AtLit \o sha1

\* C23: the message of the commit of a successful import of (r, p) at c
\* has the first line `import subrepo p:r at <SHA-1 of c>`, of 40
\* characters; with imports visible from c it goes on with an empty line
\* and the records of the visible identities, the prefix of each composed
\* of p and the prefix recorded, sorted; without, it is the subject alone.
C23_ImportMessage ==
  ImportedOk =>
    /\ Len(lastSha) = SHA1_LEN
    /\ Head(HeadMessage(Current))
         = ImportLit \o lastSubrepo.prefix \o << ":" >> \o lastSubrepo.repo
             \o AtLit \o lastSha
    /\ Tail(HeadMessage(Current))
         = IF DOMAIN visibleImports = {} THEN << >>
           ELSE << << >> >>
                  \o sorted({ composedRecord(k, visibleImports[k]) :
                                k \in DOMAIN visibleImports })

\* an import below a prefix of a commit from which an import is visible
C23_Witness ==
  /\ ImportedOk
  /\ lastSubrepo.prefix # ROOT_PREFIX
  /\ DOMAIN visibleImports # {}
  /\ Len(HeadMessage(Current)) >= 3

(***************************************************************************)
(* C24: a record written, then read by the scan of the history             *)
(***************************************************************************)

\* PREFIX_R, ([^:\n]+), and REPO_R, ([^ \n]+), of the grammar of the
\* messages
matchesPrefix(s) == s # << >> /\ \A i \in 1..Len(s) : s[i] # ":"

matchesRepo(s) == s # << >> /\ \A i \in 1..Len(s) : s[i] # " "

\* The names of repositories and the prefixes tried, inside the grammar
\* and outside of it.
RecordRepos ==
  { L1, L2, << "l", "-", "1" >>, << "a", ":", "b" >>, << "a", " ", "b" >> }

RecordPrefixes ==
  { ROOT_PREFIX, LibPrefix, << "l", sep, "x", sep >>, << "l", ".", "d", sep >>,
    << "a", " ", "b", sep >>, << "a", ":", "b", sep >> }

InitRecord ==
  /\ input \in { [ subrepo |-> Subrepo(repo, prefix), sha1 |-> sha1 ] :
                   repo \in { r \in RecordRepos : matchesRepo(r) },
                   prefix \in { p \in RecordPrefixes : matchesPrefix(p) },
                   sha1 \in { C1a, C1b, Cf1, C2b } }
  /\ output = None
  /\ Unused

\* commitImport writes the message of an import without imports visible
\* from its commit; _searchImportedSubrepos(flat=True) reads the history
\* made of this commit
WriteAndScan ==
  /\ output = None
  /\ output' = << searchImportedSubreposFlat(
                    << importMessageForCommit(input.subrepo, input.sha1,
                                              EmptyDict, TRUE) >>) >>
  /\ UNCHANGED << input, gitVars, execVars, deferVars >>

NextRecord == WriteAndScan

SpecRecord == InitRecord /\ [][NextRecord]_vars

\* C24: the record written for an identity inside the grammar at a SHA-1
\* is found by the scan of the history, with the same repository, prefix
\* and SHA-1.
C24_RecordReadBack ==
  output # None =>
    /\ input.subrepo \in DOMAIN output[1]
    /\ output[1][input.subrepo] = input.sha1

(***************************************************************************)
(* Completion of command line arguments                                    *)
(***************************************************************************)

\* sys.maxsize, as wide as the integers of the checker; complete only
\* lowers it by one per word and compares it with zero
maxsize == 2147483647

Argument(min_, max_) == [ min_ |-> min_, max_ |-> max_ ]

decrement(self) == Argument(self.min_ - 1, self.max_ - 1)

\* keywords is a dict: a sequence of entries in the order of insertion
Arguments(positionals, keywords) ==
  [ positionals |-> positionals, keywords |-> keywords ]

Keyword(name, value) == [ name |-> name, value |-> value ]

\* isinstance(value, Arguments)
isArguments(value) == "positionals" \in DOMAIN value

\* word in arguments.keywords
hasKeyword(arguments, word) ==
  \E i \in DOMAIN arguments.keywords : arguments.keywords[i].name = word

\* arguments.keywords[word]
keywordOf(arguments, word) ==
  LET at(i) == arguments.keywords[i].value
  IN  at(CHOOSE i \in DOMAIN arguments.keywords :
               arguments.keywords[i].name = word)

\* getPositional of complete; pos_idx counts from zero
getPositional(arguments, pos_idx) ==
  IF pos_idx < Len(arguments.positionals)
  THEN arguments.positionals[pos_idx + 1]
  ELSE Argument(0, 0)

\* The local variables of complete; returned is set by the bare return.
Locals(arguments, pos_idx, pos, key, returned) ==
  [ arguments |-> arguments, pos_idx |-> pos_idx, pos |-> pos, key |-> key,
    returned |-> returned ]

\* One pass of the loop over the words before the one to complete.
completeWord(st, word) ==
  IF hasKeyword(st.arguments, word)
  THEN LET found(value) ==
             IF isArguments(value)
             THEN Locals(value, st.pos_idx, st.pos, Argument(0, 0), FALSE)
             ELSE Locals(st.arguments, st.pos_idx, st.pos, value, FALSE)
       IN  found(keywordOf(st.arguments, word))
  ELSE IF st.key.max_ > 0
  THEN [ st EXCEPT !.key = decrement(st.key) ]
  ELSE IF st.pos.max_ > 0
  THEN [ st EXCEPT !.pos = decrement(st.pos) ]
  ELSE LET later == { i \in (st.pos_idx + 1)..(Len(st.arguments.positionals) - 1) :
                        getPositional(st.arguments, i).max_ > 0 }
           taken(i) == [ st EXCEPT !.pos_idx = i,
                                   !.pos = decrement(getPositional(st.arguments, i)) ]
       IN  IF later = {} THEN [ st EXCEPT !.returned = TRUE ]
           ELSE taken(CHOOSE i \in later : \A j \in later : i <= j)

RECURSIVE completeWords(_, _)
completeWords(st, words) ==
  IF words = << >> \/ st.returned THEN st
  ELSE completeWords(completeWord(st, Head(words)), Tail(words))

\* list(complete(arguments, words)), for a list of at least one word
complete(arguments, words) ==
  LET to_complete == words[Len(words)]
      yielded(st) ==
        IF st.returned \/ st.key.min_ > 0 THEN << >>
        ELSE LET names == [ i \in DOMAIN st.arguments.keywords |->
                              st.arguments.keywords[i].name ]
                 starts(word) == StartsWith(word, to_complete)
             IN  SelectSeq(names, starts)
  IN  yielded(completeWords(Locals(arguments, 0, getPositional(arguments, 0),
                                   Argument(0, 0), FALSE),
                            SubSeq(words, 1, Len(words) - 1)))

\* The words typed on a command line.
FlagName == << "-", "f" >>
OptionName == << "-", "o" >>
LocalName == << "-", "x" >>
CommandName == << "s" >>
Words == { FlagName, OptionName, LocalName, CommandName, << "a" >>, << "-" >>, << >> }

\* The words on a command line behind the name of the script.
MaxWords == 4

\* add_argument("-f", action="store_true"), add_argument("-o"),
\* add_argument("-x", action="store_true")
Flag == Keyword(FlagName, Argument(0, 0))
Option == Keyword(OptionName, Argument(1, 1))
Local == Keyword(LocalName, Argument(0, 0))

\* add_parser("s") with the positionals and keywords added to the subparser
SubCommand(positionals, keywords) ==
  Keyword(CommandName, Arguments(positionals, keywords))

\* The parsers completion is run for: without subcommands, with a
\* subcommand of one and of two fixed positionals, with a positional of the
\* parent, with nargs="*" and nargs="?".
Parsers ==
  { Arguments(<< Argument(1, 1), Argument(1, 1) >>, << Flag, Option >>),
    Arguments(<< >>, << Flag, SubCommand(<< Argument(1, 1) >>, << Local >>) >>),
    Arguments(<< >>, << Flag, SubCommand(<< Argument(1, 1), Argument(1, 1) >>,
                                         << Local, Option >>) >>),
    Arguments(<< Argument(1, 1) >>,
              << Flag, SubCommand(<< Argument(1, 1) >>, << Local >>) >>),
    Arguments(<< Argument(0, maxsize) >>, << Flag, Option >>),
    Arguments(<< Argument(0, 1), Argument(1, 1) >>,
              << Flag, Keyword(OptionName, Argument(1, maxsize)) >>) }

RECURSIVE WordLists(_)
WordLists(n) ==
  IF n = 0 THEN { << >> }
  ELSE LET shorter == WordLists(n - 1)
       IN  shorter \cup { Append(l, w) : l \in { s \in shorter : Len(s) = n - 1 },
                                         w \in Words }

InitComplete ==
  /\ input \in { [ arguments |-> arguments, words |-> words, index |-> cword ] :
                   arguments \in Parsers,
                   words \in WordLists(MaxWords) \ { << >> },
                   cword \in 1..MaxWords }
  /\ input.index <= Len(input.words)
  /\ output = None
  /\ Unused

\* CompleteAction.__call__ with the index and the words behind the script:
\* the completions printed and the status the parser exits with
CompleteAction ==
  /\ output = None
  /\ \E completions \in { complete(input.arguments,
                                   SubSeq(input.words, 1, input.index)) } :
       output' = [ completions |-> completions,
                   status |-> IF Len(completions) > 0 THEN 0 ELSE 1 ]
  /\ UNCHANGED << input, gitVars, execVars, deferVars >>

NextComplete == CompleteAction

SpecComplete == InitComplete /\ [][NextComplete]_vars

\* ---- what the words say, read one by one ----

\* The command the words before the last one lead to, the keyword named
\* last in it, the values that keyword was given and the positional values
\* the command was given.
Reading(command, keyword, given, values, excess) ==
  [ command |-> command, keyword |-> keyword, given |-> given,
    values |-> values, excess |-> excess ]

\* The values the positionals of a command accept at most.
RECURSIVE accepted(_)
accepted(positionals) ==
  IF positionals = << >> THEN 0
  ELSE LET rest == accepted(Tail(positionals))
       IN  IF Head(positionals).max_ >= maxsize \/ rest >= maxsize THEN maxsize
           ELSE Head(positionals).max_ + rest

readWord(r, word) ==
  IF hasKeyword(r.command, word)
  THEN LET found(value) ==
             IF isArguments(value)
             THEN Reading(value, Argument(0, 0), 0, 0, r.excess)
             ELSE Reading(r.command, value, 0, r.values, r.excess)
       IN  found(keywordOf(r.command, word))
  ELSE IF r.given < r.keyword.max_
  THEN [ r EXCEPT !.given = r.given + 1 ]
  ELSE [ r EXCEPT !.values = r.values + 1,
                  !.excess = r.excess \/ r.values + 1 > accepted(r.command.positionals) ]

RECURSIVE readWords(_, _)
readWords(r, words) ==
  IF words = << >> THEN r
  ELSE readWords(readWord(r, Head(words)), Tail(words))

reading(arguments, words) ==
  readWords(Reading(arguments, Argument(0, 0), 0, 0, FALSE),
            SubSeq(words, 1, Len(words) - 1))

\* The names of the keywords of a command that start with a word.
candidates(command, word) ==
  { command.keywords[i].name : i \in { j \in DOMAIN command.keywords :
                                         StartsWith(command.keywords[j].name, word) } }

completed == SubSeq(input.words, 1, input.index)

emitted == { output.completions[i] : i \in DOMAIN output.completions }

\* C25: completion emits exactly the keywords of the active (sub)command
\* that start with the partial last word when the keyword named last has the
\* values it requires and the command was given no more positional values
\* than it accepts, and nothing otherwise; the exit status is 0 exactly when
\* a candidate is emitted.
C25_CompletesActiveKeywords ==
  output # None =>
    LET r == reading(input.arguments, completed)
        allowed == r.given >= r.keyword.min_ /\ ~ r.excess
    IN  /\ emitted = IF allowed
                     THEN candidates(r.command, completed[Len(completed)])
                     ELSE {}
        /\ output.status = 0 <=> emitted # {}

\* C26: an empty word behind a subcommand of n fixed positionals and exactly
\* n values is completed to the keywords of the subcommand, with status 0.
C26_SubcommandPositionals ==
  output # None =>
    \A n \in 1..MaxWords :
      ( /\ Len(completed) = n + 2
        /\ completed[1] = CommandName
        /\ hasKeyword(input.arguments, CommandName)
        /\ isArguments(keywordOf(input.arguments, CommandName))
        /\ keywordOf(input.arguments, CommandName).positionals
             = [ i \in 1..n |-> Argument(1, 1) ]
        /\ \A i \in 2..(n + 1) : completed[i] = << "a" >>
        /\ completed[n + 2] = << >> )
      => /\ emitted = candidates(keywordOf(input.arguments, CommandName), << >>)
         /\ output.status = 0

\* ---- C27 ----

\* The import reaches import_: the index is clean, the commit is resolved
\* and belongs to the remote repository or is forced.
Attempted(args) ==
  LET reached(resolved) ==
        /\ resolved.err = "none"
        /\ args[4] \/ belongsToRepository(args[1], resolved.sha1)
  IN  /\ ~ hasCachedChanges(Current)
      /\ reached(resolveRemoteCommit(Current, args[1], args[3]))

\* The subrepo is at the state asked for: the command before was the
\* import of this commit at this prefix.
AtRequestedState(args) ==
  /\ ImportedOk
  /\ lastSubrepo = retrieveSubrepo(args[1], args[2])
  /\ lastSha = resolveRemoteCommit(Current, args[1], args[3]).sha1

\* The tree of the commit asked for is empty.
OfEmptyTree(args) ==
  LET empty(sha1) == DOMAIN Objects[sha1].tree = {}
  IN  empty(resolveRemoteCommit(Current, args[1], args[3]).sha1)

ReportsNoChanges(args) ==
  LET reported(result) ==
        /\ result.status = 1
        /\ result.err = "NoChanges"
        /\ result.st.commits = commits
  IN  reported(performImport(Current, args[1], args[2], args[3], args[4]))

\* C27: an import that stages nothing, of the state the subrepo is at or of
\* a commit with the empty tree, reports NoChanges with exit status 1 and
\* makes no commit; git apply does not fail on the patch stream.
C27_NothingStagedNoChanges ==
  \A args \in ImportArgs :
    ( Attempted(args) /\ (AtRequestedState(args) \/ OfEmptyTree(args)) )
      => ReportsNoChanges(args)

C27_Witness ==
  /\ \E args \in ImportArgs :
       Attempted(args) /\ AtRequestedState(args) /\ ReportsNoChanges(args)
  /\ \E args \in ImportArgs :
       Attempted(args) /\ OfEmptyTree(args) /\ ReportsNoChanges(args)

\* ---- C28 ----

\* The identities visible in a history: the imports of the dependency tree
\* with their dependencies, and the identities of the flat search.
VisibleIds(log) ==
  LET ids(tree) == DOMAIN tree \cup DependencyIds(tree)
  IN  ids(searchImportedSubrepos(log)) \cup DOMAIN searchImportedSubreposFlat(log)

\* C28 as stated: after a successful delete of X the identities that are no
\* longer visible from HEAD are exactly those of X and its dependencies that
\* no surviving direct import depends on.
C28_NotDependedOnDisappears ==
  DeletedOk =>
    LET before    == searchImportedSubrepos(HeadLog(last.pre))
        surviving == Only(before, DOMAIN before \ {lastSubrepo})
        closure   == {lastSubrepo}
                       \cup DependencyIds(Only(before, {lastSubrepo}))
    IN  VisibleIds(HeadLog(last.pre)) \ VisibleIds(HeadLog(Current))
          = closure \ DependencyIds(surviving)

\* C28, amended: after a successful delete of X the identities that are no
\* longer visible from HEAD are exactly those of X and its dependencies that
\* no surviving direct import is or depends on; the surviving direct imports
\* and the flat records of every identity that stays are as before.
C28_ClosureDisappears ==
  DeletedOk =>
    LET before    == searchImportedSubrepos(HeadLog(last.pre))
        after     == searchImportedSubrepos(HeadLog(Current))
        flat      == searchImportedSubreposFlat(HeadLog(last.pre))
        flatAfter == searchImportedSubreposFlat(HeadLog(Current))
        surviving == Only(before, DOMAIN before \ {lastSubrepo})
        needed    == DOMAIN surviving \cup DependencyIds(surviving)
        closure   == {lastSubrepo}
                       \cup DependencyIds(Only(before, {lastSubrepo}))
    IN  /\ lastSubrepo \in DOMAIN before
        /\ VisibleIds(HeadLog(last.pre)) \ VisibleIds(HeadLog(Current))
             = closure \ needed
        /\ DOMAIN flat \ DOMAIN flatAfter = closure \ needed
        /\ VisibleIds(HeadLog(Current)) \subseteq VisibleIds(HeadLog(last.pre))
        /\ after = surviving
        /\ \A id \in DOMAIN flatAfter : flatAfter[id] = flat[id]

\* X was deleted with a dependency that went with it, or with one that
\* another direct import still needs
C28_Witness ==
  /\ DeletedOk
  /\ LET before    == searchImportedSubrepos(HeadLog(last.pre))
         surviving == Only(before, DOMAIN before \ {lastSubrepo})
         needed    == DOMAIN surviving \cup DependencyIds(surviving)
         deps      == DependencyIds(Only(before, {lastSubrepo}))
     IN  /\ deps \cap needed # {}
         /\ deps \cap needed \subseteq VisibleIds(HeadLog(Current))

(***************************************************************************)
(* reimport of an import commit the user has amended                       *)
(***************************************************************************)

\* The imports the amended commits were made by: --force <sha1> of a commit
\* the remote-tracking branch has left behind, and of commits it has.
AmendedImports ==
  { << L1, << curdir >>, Cf1 >>, << L1, << "l" >>, Cf1 >>,
    << L1, << curdir >>, C1b >>, << L1, << curdir >>, C1a >> }

\* What the user put around the record the import wrote: lines above it,
\* text before and behind it on its line, lines below it.
LinesAbove == { << >>, << << "u", "1" >>, << >> >> }

TextBefore == { << >>, << "s", " " >> }

TextBehind == { << >>, << " ", "x" >> }

LinesBelow ==
  { << >>,
    << << >>, << "u", "1" >> >>,
    << importMessage(Subrepo(L2, ROOT_PREFIX), C2b) >>,
    << importMessage(Subrepo(L2, ROOT_PREFIX), C2b) \o << " ", "x" >> >> }

\* git commit --amend --message=<message> on the commit of an import
amendedImport(args, above, before, behind, below) ==
  LET rewritten(st, message) ==
        Repo(<< [ message |-> above \o << before \o Head(message) \o behind >>
                                \o Tail(message) \o below,
                  tree |-> st.index ] >>,
             st.index, st.worktree)
      amend(st) == rewritten(st, st.commits[1].message)
  IN  amend(performImport(Repo(<< >>, EmptyTree, EmptyTree),
                          args[1], args[2], args[3], TRUE).st)

InitReimport ==
  /\ input \in { [ st |-> amendedImport(args, above, before, behind, below),
                   branch |-> branch ] :
                   args \in AmendedImports, above \in LinesAbove,
                   before \in TextBefore, behind \in TextBehind,
                   below \in LinesBelow, branch \in BranchArgs }
  /\ output = None
  /\ Unused

\* git subrepo reimport [--branch=<branch>] in the amended repository
ReimportAmended ==
  /\ output = None
  /\ output' = << performReimport(input.st, input.branch) >>
  /\ UNCHANGED << input, gitVars, execVars, deferVars >>

NextReimport == ReimportAmended

SpecReimport == InitReimport /\ [][NextReimport]_vars

\* the line is one import record and nothing else
isRecord(line) ==
  LET whole(record) ==
        /\ record.kind = "import"
        /\ line = importMessage(record.subrepo, record.sha1)
  IN  whole(matchImport(line))

\* C29: reimport of an import commit whose first record is not the start
\* of the message keeps the text of the old message up to that record and
\* puts the regenerated block behind it, without an empty line behind the
\* first record; if a non-empty line from the first record to the end of the
\* old message is not an import record, reimport fails with
\* InvalidImportMessage and leaves the repository as it is.
C29_EmbeddedMessageRewritten ==
  output # None =>
    LET st       == input.st
        old      == HeadMessage(st)
        found    == HeadImport(st)
        result   == output[1]
        embedded == found.line # 0 /\ ~ (found.line = 1 /\ found.offset = 0)
        changing == /\ Cardinality(Candidates(st, input.branch)) = 1
                    /\ found.record.sha1 \notin Candidates(st, input.branch)
        new_commit == CHOOSE c \in Candidates(st, input.branch) : TRUE
        tail     == messageFrom(old, found)
        invalid  == \E i \in 1..Len(tail) : tail[i] # << >> /\ ~ isRecord(tail[i])
        new      == HeadMessage(result.st)
    IN  (embedded /\ changing) =>
          /\ invalid =>
               /\ result.status = 1
               /\ result.err = "InvalidImportMessage"
               /\ result.st = st
          /\ result.status = 0 =>
               /\ Len(new) >= found.line
               /\ SubSeq(new, 1, found.line - 1) = SubSeq(old, 1, found.line - 1)
               /\ new[found.line]
                    = SubSeq(old[found.line], 1, found.offset)
                        \o importMessage(found.record.subrepo, new_commit)
               /\ SubSeq(new, found.line + 1, Len(new))
                    = importMessageForImports(
                        searchImportedSubreposFlat(LogOf(new_commit)),
                        found.record.subrepo.prefix)

\* ---- C30 ----

\* the children that run the commands of the pipeline behind the spring
tails == { c \in DOMAIN procs : procs[c].head = 0 }

\* the commands of the spring before its last that exited non-zero
failedHeads ==
  { c \in heads \cap failures : procs[c].head < Len(call.heads) }

\* C30: when a command of a spring that is not its last exits non-zero
\* (every fork succeeding), no later command of the spring is forked, the
\* pipeline behind the spring is forked, read to its end and waited for, and
\* spring() raises ProcessError with the status and the formatted command of
\* that command; when no command of the spring fails and one of the
\* pipeline does, the status and the formatted command are those of the
\* first such command.
C30_SpringFailureReported ==
  (call.kind = "spring" /\ call.forks = NoLimit /\ Done) =>
    /\ \A c \in failedHeads :
         /\ \A d \in heads : procs[d].head <= procs[c].head
         /\ Cardinality(tails) = Len(call.commands)
         /\ \A t \in tails : procs[t].state = "reaped"
         /\ pipes["stdout"] = << >> /\ pipes["stderr"] = << >>
         /\ ProcessFailure
         /\ par.status = procs[c].exit
         /\ par.failed = formatCommand(call.heads[procs[c].head].argv)
    /\ (heads \cap failures = {} /\ tails \cap failures # {}) =>
         /\ ProcessFailure
         /\ \E t \in tails \cap failures :
              /\ \A u \in tails \cap failures : t <= u
              /\ par.status = procs[t].exit
              /\ par.failed = formatCommand(call.commands[t - 1].argv)

\* the first command of a spring failed and the command behind the spring
\* failed with another status
C30_Witness ==
  /\ call.kind = "spring"
  /\ call.forks = NoLimit
  /\ ProcessFailure
  /\ \E c \in failedHeads : \E t \in tails \cap failures :
       /\ procs[t].exit # procs[c].exit
       /\ par.status = procs[c].exit
\* ---- C31 ----

\* the calls of pipeline() that feed stdin from a buffer, every fork
\* succeeding: to commands that copy, to a command that writes without
\* reading and to one that exits without reading
FeedPipelines ==
  { << CatCmd >>, << CatCmd, CatCmd >>, << EchoCmd, CatCmd >>,
    << CatBig, CatCmd >>, << TrueCmd >> }

FeedCalls ==
  { c \in Calls : /\ c.kind = "pipeline"
                  /\ c.commands \in FeedPipelines
                  /\ c.stdin >= 0
                  /\ c.forks = NoLimit }

InitFeed ==
  /\ call \in FeedCalls
  /\ par = Parent
  /\ procs = << >>
  /\ pipes = [ p \in PipeNames |-> << >> ]
  /\ commits = << >>
  /\ index = EmptyTree
  /\ worktree = EmptyTree
  /\ rebase = None
  /\ last = Command("init", None, None, None, FALSE, None,
                    Repo(<< >>, EmptyTree, EmptyTree), 0, "none")
  /\ handles = << >> /\ functions = << >> /\ ran = << >> /\ scope = None
  /\ input = None /\ output = None

NextFeed ==
  \/ PipelineStart
  \/ Poll
  \/ Wait
  \/ ChildWrite
  \/ ChildRead
  \/ ChildExit

SpecFeed == InitFeed /\ [][NextFeed]_vars

\* the kernel runs what can run, as in SpecExecFair
SpecFeedFair == SpecFeed /\ WF_vars(NextFeed)

\* every command of the call copies its stdin to its stdout
copies == \A t \in DOMAIN call.commands : call.commands[t].copy

\* a pipeline of commands that copy, with data for stdin and a buffer for
\* stdout
fedAndCaptured ==
  call.kind = "pipeline" /\ call.stdin >= 0 /\ call.stdout /\ copies

\* C31: a pipeline whose commands copy their input to their output, fed
\* stdin from a buffer and with stdout read into a buffer, eventually
\* returns or raises, whatever the size of the input: more than a pipe
\* holds included.
C31_FedPipelineTerminates == fedAndCaptured ~> Done

\* such a pipeline returned after more data than a pipe holds went through
\* two commands
C31_Witness ==
  /\ fedAndCaptured
  /\ call.stdin > PipeCap
  /\ Len(call.commands) = 2
  /\ par.pc = "returned"
  /\ Len(par.data.stdout) = Len(buffer(call, "stdout")) + call.stdin
\* ---- C32 ----

\* a is the beginning of b
IsPrefix(a, b) == Len(a) <= Len(b) /\ SubSeq(b, 1, Len(a)) = a

\* the buffers of the channels that are read
Captured == { channel \in { "stdout", "stderr" } : call[channel] }

\* C32: for a channel read into a buffer, what the buffer holds followed by
\* what its pipe holds is the buffer passed in when the call has set up its
\* descriptors, and from then on only grows at its end, by what a child
\* writes; when the call returns the pipe is empty and no child runs.  So
\* the data returned is the buffer passed in followed by all that was
\* written, in order, the data a pipe held at the hang-up included.
C32_CapturedInOrder ==
  [][ \A channel \in Captured :
        /\ par.pc = "start" =>
             par'.data[channel] \o pipes'[channel] = buffer(call, channel)
        /\ par.pc # "start" =>
             IsPrefix(par.data[channel] \o pipes[channel],
                      par'.data[channel] \o pipes'[channel])
        /\ par'.pc = "returned" =>
             /\ pipes'[channel] = << >>
             /\ \A c \in DOMAIN procs' : procs'[c].state # "running"
    ]_vars

\* a call returned a buffer that held data, followed by more than a read
\* asks for that was in the pipe at the hang-up
C32_Witness ==
  /\ par.pc = "returned"
  /\ call.initial
  /\ call.stdout
  /\ par.flushed.stdout >= 2
  /\ Len(par.data.stdout) > par.flushed.stdout
  /\ IsPrefix(buffer(call, "stdout"), par.data.stdout)
  /\ \A j \in 2 .. Len(par.data.stdout) : par.data.stdout[j] \in DOMAIN procs
\* ---- C33 ----

\* the times the function of handle h ran
runs(h) == Cardinality({ r \in DOMAIN ran : ran[r].handle = h })

\* C33: a function that was invoked through its handle has run, and no
\* deferred function runs more than once: not when its handle is invoked
\* again and not when the scope is destroyed.
C33_RunsAtMostOnce == \A h \in DOMAIN handles : runs(h) <= 1
\* ---- C34 ----

\* the times the function of handle h ran, by what ran
runsIn(ran_, h) == Cardinality({ r \in DOMAIN ran_ : ran_[r].handle = h })

\* the handles of the functions that would run when the scope were left now,
\* in the order they would run
atExit(st) ==
  LET after == exit(st, "none").st.ran
  IN  [ r \in 1 .. Len(after) - Len(st.ran) |-> after[Len(st.ran) + r].handle ]

\* seq without h
without(seq, h) ==
  LET other(g) == g # h
  IN  SelectSeq(seq, other)

\* handle h was released in the step
releasedNow(h) ==
  /\ ran' = ran
  /\ handles[h].function
  /\ ~ handles'[h].function

\* C34: a function whose handle was released does not run any more, not
\* when the scope is destroyed either; the release of a handle changes what
\* runs when the scope is destroyed by that one function only (when the
\* function released would have raised, those registered before it run as
\* well); and after the release of the scope none of the functions
\* registered before it runs when the scope is destroyed.
C34_OnlyReleasedSuppressed ==
  [][ /\ \A h \in DOMAIN handles :
           ~ handles[h].function => runsIn(ran', h) = runsIn(ran, h)
      /\ \A h \in DOMAIN handles :
           releasedNow(h) =>
             /\ \A g \in DOMAIN handles \ { h } : handles'[g] = handles[g]
             /\ functions' = functions
             /\ \A r \in DOMAIN atExit(DeferState(handles', functions', ran')) :
                  atExit(DeferState(handles', functions', ran'))[r] # h
             /\ IF handles[h].raises
                THEN IsPrefix(without(atExit(Deferred), h),
                              atExit(DeferState(handles', functions', ran')))
                ELSE atExit(DeferState(handles', functions', ran'))
                       = without(atExit(Deferred), h)
      /\ (functions # << >> /\ functions' = << >>) =>
           atExit(DeferState(handles', functions', ran')) = << >>
      /\ \A h \in DOMAIN handles :
           (\A f \in DOMAIN functions : functions[f] # h) =>
             \A r \in Len(ran) + 1 .. Len(ran') :
               ran'[r].handle = h => ran'[r].at \notin { "exit", "destroy" }
    ]_vars

\* the scope was left: a function whose handle was released never ran, and
\* a function registered before it and one registered after it ran at the
\* exit
C34_Witness ==
  /\ scope.pc = "left"
  /\ \E f, g, h \in DOMAIN functions :
       /\ f < g /\ g < h
       /\ ~ handles[functions[g]].function
       /\ runs(functions[g]) = 0
       /\ \E r, q \in DOMAIN ran :
            /\ ran[r].handle = functions[f] /\ ran[r].at = "exit"
            /\ ran[q].handle = functions[h] /\ ran[q].at = "exit"
\* ---- C35 ----

\* the dependencies of the subrepo deleted that went with it: those that no
\* surviving direct import is or depends on
deletedDependencies ==
  LET before    == searchImportedSubrepos(HeadLog(last.pre))
      surviving == Only(before, DOMAIN before \ {lastSubrepo})
      needed    == DOMAIN surviving \cup DependencyIds(surviving)
  IN  DependencyIds(Only(before, {lastSubrepo})) \ (needed \cup {lastSubrepo})

\* the dependencies of the subrepo deleted that stay
keptDependencies ==
  LET before == searchImportedSubrepos(HeadLog(last.pre))
  IN  DependencyIds(Only(before, {lastSubrepo})) \ deletedDependencies

\* C35: the message of the commit of a successful delete of (r, p) has the
\* first line `delete subrepo p:r`; when dependencies are deleted with it,
\* an empty line follows and then one line `delete subrepo q:d` for every
\* dependency deleted, none for a dependency that is kept, q being the
\* prefix of its record, the lines sorted; otherwise the message is the
\* first line alone.
C35_DeleteMessage ==
  DeletedOk =>
    /\ Head(HeadMessage(Current))
         = DeleteLit \o lastSubrepo.prefix \o << ":" >> \o lastSubrepo.repo
    /\ Tail(HeadMessage(Current))
         = IF deletedDependencies = {} THEN << >>
           ELSE << << >> >>
                  \o sorted({ DeleteLit \o d.prefix \o << ":" >> \o d.repo :
                                d \in deletedDependencies })

\* a subrepo below a prefix was deleted with two dependencies
C35_Witness ==
  /\ DeletedOk
  /\ lastSubrepo.prefix # ROOT_PREFIX
  /\ Cardinality(deletedDependencies) = 2
  /\ Len(HeadMessage(Current)) = 4
(***************************************************************************)
(* removeSubsumedFiles applied to its own result                           *)
(***************************************************************************)

\* removeSubsumedFiles(files): output is the list of the results so far
RemoveOnce ==
  /\ output = << >>
  /\ output' = << removeSubsumedFiles(input) >>
  /\ UNCHANGED << input, gitVars, execVars, deferVars >>

\* removeSubsumedFiles of the paths of the first result
RemoveTwice ==
  /\ Len(output) = 1
  /\ output' = Append(output,
                      removeSubsumedFiles({ output[1][i] : i \in DOMAIN output[1] }))
  /\ UNCHANGED << input, gitVars, execVars, deferVars >>

NextSubsumeTwice ==
  \/ RemoveOnce
  \/ RemoveTwice

SpecSubsumeTwice == InitSubsume /\ [][NextSubsumeTwice]_vars

\* C36: removeSubsumedFiles is idempotent: applied to the paths of its
\* result it returns the same paths.
C36_Idempotent ==
  Len(output) = 2 =>
    { output[2][i] : i \in DOMAIN output[2] }
      = { output[1][i] : i \in DOMAIN output[1] }

\* the function was applied twice, and its first application had removed a
\* path and kept more than one
C36_Witness ==
  /\ Len(output) = 2
  /\ Len(output[1]) < Cardinality(input)
  /\ Len(output[1]) >= 2
  /\ output[2] = output[1]
\* ---- C37 ----

\* the line starts with an import record or with a delete record
startsWithRecord(line) ==
  matchRe("import", line).kind # "none" \/ matchRe("delete", line).kind # "none"

\* C37: reimport leaves HEAD, the index and the working tree as they are
\* when no line of the message of HEAD starts with an import record or a
\* delete record, also when the text of a record stands in the middle of
\* a line.
C37_NoRecordLineNoChange ==
  output # None =>
    ((\A i \in DOMAIN HeadMessage(input.st) :
         ~ startsWithRecord(HeadMessage(input.st)[i]))
       => output[1].st = input.st)
\* ---- C38 ----

(***************************************************************************)
(* main: what a command returns and what it writes to stderr               *)
(***************************************************************************)

\* a line written to stderr: its text and what is formatted into it
Line(text, of) == [ text |-> text, of |-> of ]

\* ProcessError, raised by the executor for a git command that failed
ProcessErrors == { "ProcessFailure", "UnknownCommit" }

\* SubrepoError: DependencyError, DeletionError and ReimportError
SubrepoErrors ==
  { "StillDependedOn", "NotDirectlyImported", "UnknownSubrepo",
    "InvalidImportMessage", "ReimportAmbiguous" }

\* str(e) of the ReimportError of _reimportImport: the commits found, in
\* the order of the list, follow the first line one on a line
reimportErrorLines(subject, new_commits) ==
  IF Len(new_commits) < 1
  THEN << Line("Found no commits matching subject \"{sub}\".", << subject >>) >>
  ELSE << Line("Found {cnt} commits matching subject \"{sub}\":",
               << subject >>) >>
         \o [ i \in 1..Len(new_commits) |-> Line("{commits}", << new_commits[i] >>) ]

\* str(e) of the exception a command ended with; the text git wrote, which
\* a ProcessError carries behind the command, is not modelled
errorLines(st, argv, err) ==
  LET found   == reSearch("import", HeadMessage(st))
      subject == retrieveSubject(found.record.sha1)
  IN  IF err = "ReimportAmbiguous"
      THEN reimportErrorLines(subject,
             sorted(findCommitsBySubject(found.record.subrepo.repo, subject,
                                         argv.branch)))
      ELSE IF err = "StillDependedOn"
      THEN << Line("Cannot delete subrepo %s. Still a dependency of %s.", << >>) >>
      ELSE IF err = "NotDirectlyImported"
      THEN << Line("Cannot delete subrepo %s as it did not get imported directly.", << >>) >>
      ELSE IF err = "UnknownSubrepo"
      THEN << Line("Subrepo %s not found.", << >>) >>
      ELSE IF err = "InvalidImportMessage"
      THEN << Line("Invalid commit message. All import lines must reside at the end.", << >>) >>
      ELSE << Line("[Status {status:d}] {name}", << >>) >>

\* what performImport, performReimport and performDelete print themselves
\* before they return 1
printed(err) ==
  IF err = "DirtyIndex"
  THEN << Line("Cannot %s: Your index contains uncommitted changes.", << >>),
          Line("Please commit or stash them.", << >>) >>
  ELSE IF err = "NotInRemote"
  THEN << Line("{sha1} is not a reachable commit in remote repository {repo}.", << >>) >>
  ELSE IF err = "NoChanges" THEN << Line("No changes", << >>) >>
  ELSE << >>

\* an exception that leaves main: the interpreter prints the traceback and
\* ends with status 1
Traceback(err) ==
  << Line("Traceback (most recent call last):", << >>),
     Line("  File \"%s\", line %d, in %s", << >>),
     Line("%s: %s", << err >>) >>

\* namespace.perform_command(git, namespace)
perform_command(st, argv) ==
  IF argv.command = "import"
  THEN performImport(st, argv.repo, argv.prefix, argv.commit, argv.force)
  ELSE IF argv.command = "delete"
  THEN performDelete(st, argv.repo, argv.prefix)
  ELSE performReimport(st, argv.branch)

Exit(status, raised, stderr_, st) ==
  [ status |-> status, raised |-> raised, stderr |-> stderr_, st |-> st ]

\* a main that returns 1 for every exception it catches
mainReturningOne(st, argv) ==
  LET caught(result) ==
        IF argv.debug_exceptions
        THEN Exit(1, result.err, Traceback(result.err), result.st)
        ELSE Exit(1, "none", errorLines(st, argv, result.err), result.st)
      returned(result) ==
        IF result.err \in ProcessErrors \cup SubrepoErrors THEN caught(result)
        ELSE IF result.err \in { "RuntimeError", "AssertionError" }
        THEN Exit(1, result.err, Traceback(result.err), result.st)
        ELSE Exit(result.status, "none", printed(result.err), result.st)
  IN  returned(perform_command(st, argv))

\* main
main(st, argv) ==
  LET caught(result) ==
        IF argv.debug_exceptions
        THEN Exit(1, result.err, Traceback(result.err), result.st)
        ELSE Exit(IF result.err \in ProcessErrors THEN result.status ELSE 1,
                  "none", errorLines(st, argv, result.err), result.st)
      returned(result) ==
        IF result.err \in ProcessErrors \cup SubrepoErrors THEN caught(result)
        \* neither an AttributeError, a ProcessError nor a SubrepoError
        ELSE IF result.err \in { "RuntimeError", "AssertionError" }
        THEN Exit(1, result.err, Traceback(result.err), result.st)
        ELSE Exit(result.status, "none", printed(result.err), result.st)
  IN  returned(perform_command(st, argv))

\* The repositories the commands run in: without a commit, after one and
\* after two imports, with a file staged on top of an import, and with
\* the message of an import amended by the user.
NoCommit == Repo(<< >>, EmptyTree, EmptyTree)

MainImports ==
  { << L1, << curdir >>, C1a >>, << L1, << "l" >>, master >>,
    << M3, << curdir >>, master >>, << L2, << curdir >>, master >> }

imported(st, args) == performImport(st, args[1], args[2], args[3], FALSE).st

staged(st, file_) ==
  Repo(st.commits, Put(st.index, file_, "s1"), Put(st.index, file_, "s1"))

MainRepositories ==
  { NoCommit }
    \cup { imported(NoCommit, a) : a \in MainImports }
    \cup { imported(imported(NoCommit, a), b) : a, b \in MainImports }
    \cup { staged(imported(NoCommit, a), file_) :
             a \in MainImports, file_ \in StageFiles }
    \cup { amendedImport(a, << >>, << >>, behind, below) :
             a \in AmendedImports, behind \in TextBehind,
             below \in LinesBelow }

\* The command lines: the imports and deletions tried above and reimport,
\* with and without --debug-exceptions.
MainArgv ==
  { [ command |-> "import", repo |-> a[1], prefix |-> a[2], commit |-> a[3],
      force |-> a[4], branch |-> None, debug_exceptions |-> d ] :
      a \in ImportArgs \cup NestedImportArgs, d \in BOOLEAN }
    \cup { [ command |-> "delete", repo |-> a[1], prefix |-> a[2],
             commit |-> None, force |-> FALSE, branch |-> None,
             debug_exceptions |-> d ] :
             a \in DeleteArgs \cup NestedDeleteArgs, d \in BOOLEAN }
    \cup { [ command |-> "reimport", repo |-> None, prefix |-> None,
             commit |-> None, force |-> FALSE, branch |-> b,
             debug_exceptions |-> d ] : b \in BranchArgs, d \in BOOLEAN }

InitMain ==
  /\ input \in [ st : MainRepositories, argv : MainArgv ]
  /\ output = None
  /\ Unused

\* git subrepo <command> ... in the repository
Main ==
  /\ output = None
  /\ output' = << main(input.st, input.argv) >>
  /\ UNCHANGED << input, gitVars, execVars, deferVars >>

NextMain == Main

SpecMain == InitMain /\ [][NextMain]_vars

\* the command ended with an exception of the kind in errs
endedWith(errs) == perform_command(input.st, input.argv).err \in errs

\* the commits reimport found for the subject of the recorded commit
foundCommits ==
  LET found == reSearch("import", HeadMessage(input.st))
  IN  findCommitsBySubject(found.record.subrepo.repo,
                           retrieveSubject(found.record.sha1),
                           input.argv.branch)

\* the command made the commit it is there to make
succeeded ==
  /\ perform_command(input.st, input.argv).err = "none"
  /\ output[1].raised = "none"
  /\ input.argv.command \in { "import", "delete" }
       => Len(output[1].st.commits) = Len(input.st.commits) + 1

\* 0 is returned only for a command that succeeded, and a git command that
\* failed gives its status, which is not 0
statusMirrored ==
  /\ output[1].status = 0 => succeeded
  /\ endedWith(ProcessErrors) =>
       /\ output[1].status = perform_command(input.st, input.argv).status
       /\ output[1].status # 0
       /\ output[1].raised = "none"
  /\ endedWith(SubrepoErrors) =>
       /\ output[1].status = 1
       /\ output[1].raised = "none"
       /\ output[1].st = input.st

\* C38 as stated: without --debug-exceptions main returns 0 only when the
\* command succeeded, the status of the git command that failed, and 1
\* after a diagnostic of one line for every dependency, deletion and
\* reimport error.
C38_OneLineDiagnostic ==
  (output # None /\ ~ input.argv.debug_exceptions) =>
    /\ statusMirrored
    /\ endedWith(SubrepoErrors) => Len(output[1].stderr) = 1

\* C38: without --debug-exceptions main returns 0 only when the command
\* succeeded, the status of the git command that failed, and 1 for every
\* dependency, deletion and reimport error, after it printed the text of
\* the error: one line, but for a reimport that found two or more commits
\* with the subject, where one line for each of them follows.
C38_ExitStatus ==
  (output # None /\ ~ input.argv.debug_exceptions) =>
    /\ statusMirrored
    /\ endedWith(SubrepoErrors) =>
         Len(output[1].stderr)
           = IF endedWith({ "ReimportAmbiguous" })
                  /\ Cardinality(foundCommits) >= 2
             THEN 1 + Cardinality(foundCommits)
             ELSE 1

\* a reimport found two commits and main returned 1 after three lines
C38_Witness ==
  /\ output # None
  /\ ~ input.argv.debug_exceptions
  /\ endedWith({ "ReimportAmbiguous" })
  /\ Cardinality(foundCommits) = 2
  /\ output[1].status = 1
  /\ Len(output[1].stderr) = 3
\* ---- C39 ----

(***************************************************************************)
(* pipeline() and spring() with a program that does not exist              *)
(***************************************************************************)

\* The exception of execv on its way up in the child: out of _pipeline or
\* _spring and through the scope `here`, whose functions close the copies
\* of its descriptors, through the scope `later`, and out of pipeline() or
\* spring() into the caller.
unwind(child) ==
  IF child.flow = "raised"
  THEN [ child EXCEPT !.flow = "here", !.open = @ \ child.here ]
  ELSE IF child.flow = "here"
  THEN [ child EXCEPT !.flow = "later", !.open = @ \ child.later ]
  ELSE [ child EXCEPT !.flow = "escaped" ]

\* A child whose execv raised goes on with the code of the parent.
ChildUnwind ==
  \E c \in DOMAIN procs :
    /\ procs[c].state = "running"
    /\ procs[c].flow \in { "raised", "here", "later" }
    /\ procs' = [ procs EXCEPT ![c] = unwind(@) ]
    /\ UNCHANGED << call, par, pipes, gitVars, deferVars, funVars >>

\* The calls tried with a program that does not exist.
MissingPipelines ==
  { << MissingCmd >>, << EchoCmd, MissingCmd >>, << MissingCmd, CatCmd >>,
    << CatBig, MissingCmd >>, << CatCmd, MissingCmd, CatCmd >> }

MissingSprings ==
  { << << MissingCmd >>, << >> >>,
    << << MissingCmd, EchoCmd >>, << >> >>,
    << << EchoCmd, MissingCmd >>, << CatCmd >> >>,
    << << EchoCmd, EchoCmd >>, << MissingCmd >> >>,
    << << EchoCmd, EchoCmd >>, << CatCmd, MissingCmd >> >> }

MissingCalls ==
  { [ kind |-> "pipeline", heads |-> << >>, commands |-> c, stdin |-> i,
      stdout |-> o, stderr |-> e, initial |-> FALSE, forks |-> NoLimit ] :
      c \in MissingPipelines, i \in { -1, PipeCap + 1 }, o \in BOOLEAN,
      e \in BOOLEAN }
  \cup
  { [ kind |-> "spring", heads |-> c[1], commands |-> c[2], stdin |-> -1,
      stdout |-> o, stderr |-> e, initial |-> FALSE, forks |-> NoLimit ] :
      c \in MissingSprings, o \in BOOLEAN, e \in BOOLEAN }

InitExecMissing ==
  /\ call \in MissingCalls
  /\ par = Parent
  /\ procs = << >>
  /\ pipes = [ p \in PipeNames |-> << >> ]
  /\ commits = << >>
  /\ index = EmptyTree
  /\ worktree = EmptyTree
  /\ rebase = None
  /\ last = Command("init", None, None, None, FALSE, None,
                    Repo(<< >>, EmptyTree, EmptyTree), 0, "none")
  /\ handles = << >> /\ functions = << >> /\ ran = << >> /\ scope = None
  /\ input = None /\ output = None

NextExecMissing ==
  \/ PipelineStart
  \/ SpringStart
  \/ SpringWaitHead
  \/ SpringPollOnce
  \/ Poll
  \/ Wait
  \/ ChildWrite
  \/ ChildRead
  \/ ChildExit
  \/ ChildUnwind

SpecExecMissing == InitExecMissing /\ [][NextExecMissing]_vars

\* C39: a child whose exec failed ends at once: it runs neither the
\* functions of the scopes of pipeline() or spring(), nor the code of the
\* caller behind the call.
C39_ChildEndsAtExec ==
  \A c \in DOMAIN procs : procs[c].flow \in { "exec", "raised" }
\* ---- C40 ----

\* the parent is in the loop of poll(), or between two of its rounds
polling == par.pc \in { "poll", "pollonce", "waithead" }

\* C40: the parent closes none of its descriptors more than once, be it
\* early in the poll loop, at the end of a scope or in between, and every
\* descriptor it still polls is open.
C40_ClosedOnce ==
  /\ \A fd \in AllFds : par.closes[fd] <= 1
  /\ polling => \A channel \in par.polls : pollFd(channel) \in par.open

\* the call raised for stdin after the poll loop had closed the descriptor
\* of stdout early: the scope `later` closed the one of stdin, and each of
\* the two was closed once
C40_Witness ==
  /\ par.pc = "raised"
  /\ par.err = "ConnectionError"
  /\ call.stdin > 0 /\ call.stdout
  /\ "stdout" \notin par.polls
  /\ "stdin" \in par.polls
  /\ par.closes[Fd("stdout", "r")] = 1
  /\ par.closes[Fd("stdin", "w")] = 1

====
